---- MODULE Spec2Model ----
(***************************************************************************)
(* Order-book engine of the prediction-market collector:                   *)
(*   internal/engine/orderbook/orderbook.go  (Orderbook: Set, Update,      *)
(*                                            GetTopN, Len, getTree)       *)
(*   internal/engine  (Client: Send, Start, TakeSnapshots;                 *)
(*                     OrderbookWorker.start)                              *)
(*                                                                         *)
(*   internal/engine  (SnapshotWriter: Start, writeSnapshots)              *)
(*   internal/polymarket  (Polymarket: Start, syncLoop, syncMarkets,       *)
(*                         subscribeToMarkets)                             *)
(*   internal/polymarket/websocket/client.go  (ReadMessage, ParseMessage)  *)
(*   internal/polymarket/clob/client.go, internal/kalshi  (GetAllMarkets)  *)
(*   internal/price/price.go  (Price.UnmarshalJSON)                        *)
(*   internal/polymarket/websocket/client.go  (New, Close, pingLoop)       *)
(*                                                                         *)
(* The specifications share the variables:                                 *)
(*   SpecBook  one Orderbook driven by arbitrary Set/Update/GetTopN/Len    *)
(*   Spec      the engine: senders, the router goroutine (Client.Start),   *)
(*             one worker goroutine per token, cancellation                *)
(*   SpecSnap  Spec with TakeSnapshots running concurrently                *)
(*   SpecSide  Spec fed with updates of valid and invalid sides            *)
(*   SpecWriter      the engine with a SnapshotWriter and its store        *)
(*   SpecWriterFair  the same under fair scheduling, for termination       *)
(*   SpecAdapter     Polymarket.Start, its read loop and syncLoop          *)
(*   SpecSync        syncLoop with a catalog and a store that can fail     *)
(*   SpecClob        GetAllMarkets paginating over a venue                 *)
(*   SpecPrice       Price.UnmarshalJSON on decimal strings                *)
(*   SpecPair        SpecBook remembering the last two operations          *)
(*   SpecTokens      the engine fed with updates of two tokens             *)
(*   SpecConn        Polymarket.Start and Stop, ReadMessage, pingLoop      *)
(***************************************************************************)
EXTENDS Integers, Sequences, FiniteSets, TLC

----------------------------------------------------------------------------
(* Bounds of the model.                                                    *)

MaxPrice == 2        \* prices 1..MaxPrice (fixed-point units)
MaxSize == 2         \* largest size a level may reach in SpecBook
MinSize == 0 - 1     \* most negative size / delta offered to the book
MaxN == 3            \* largest n passed to GetTopN in SpecBook
MaxSends == 4        \* Send calls made in one behaviour of the engine
MaxDepth == 1        \* largest depth passed to TakeSnapshots
MaxTicks == 2        \* ticks of the snapshot ticker in one behaviour
MaxLiveSends == 3    \* Send calls in one behaviour of SpecWriterFair
MaxReads == 3        \* frames the stream delivers in one behaviour
MaxRounds == 2       \* ticks of the market-sync ticker in one behaviour
MaxPages == 3        \* pages a venue serves in SpecClob
MaxRequests == 4     \* GetMarkets calls in one behaviour of SpecClob
MaxIntDigits == 1    \* integer digits of the short inputs of SpecPrice
MaxFracDigits == 7   \* fractional digits of the short inputs of SpecPrice
MaxCalls == 2        \* ReadMessage calls in one behaviour of SpecConn
MaxStops == 2        \* Stop calls in one behaviour of SpecConn
MaxPings == 2        \* keepalive ticks in one behaviour of SpecConn

\* const maximumUpdates = 100 in the source; scaled down so that both the
\* inbound queue and the worker queues fill up within MaxSends.
maximumUpdates == 2

Prices == 1..MaxPrice
Sizes == MinSize..MaxSize
Times == 1..2                        \* non-zero event times
ValidSides == {"bids", "asks"}
Sides == ValidSides \cup {"buy"}     \* "buy" stands for any invalid side
Tokens == {"A", "B"}

----------------------------------------------------------------------------
(* orderbook.go                                                            *)

Level(p, s, t) == [Price |-> p, Size |-> s, UpdatedAt |-> t]

lessAsc(a, b) == a.Price < b.Price

lessDesc(a, b) == a.Price > b.Price

\* Faulty variant: both trees are ordered by ascending price.
lessAlwaysAsc(side, a, b) == lessAsc(a, b)

\* The comparator each tree was constructed with in New().
less(side, a, b) == IF side = "bids" THEN lessDesc(a, b) ELSE lessAsc(a, b)

New == [bids |-> <<>>, asks |-> <<>>]

\* A btree is modelled by the sequence of its items in comparator order.
\* btree.Get: the stored item equal to key (neither less than the other).
TreeGet(tree, side, key) ==
  LET hits == SelectSeq(tree, LAMBDA x : ~less(side, x, key) /\ ~less(side, key, x))
  IN  IF Len(hits) = 0 THEN [found |-> FALSE, item |-> key]
      ELSE [found |-> TRUE, item |-> hits[1]]

\* Faulty variant: only an item identical to key in every field is removed.
TreeDeleteExact(tree, side, key) == SelectSeq(tree, LAMBDA x : x # key)

\* btree.Delete: removes the item equal to key, if any.
TreeDelete(tree, side, key) ==
  SelectSeq(tree, LAMBDA x : less(side, x, key) \/ less(side, key, x))

\* Faulty variant: an equal item is kept next to the new one.
TreeReplaceOrInsertDup(tree, side, item) ==
  SelectSeq(tree, LAMBDA x : ~less(side, item, x))
    \o <<item>>
    \o SelectSeq(tree, LAMBDA x : less(side, item, x))

\* btree.ReplaceOrInsert: the item takes the place of an equal item, or is
\* inserted at its comparator position.
TreeReplaceOrInsert(tree, side, item) ==
  SelectSeq(tree, LAMBDA x : less(side, x, item))
    \o <<item>>
    \o SelectSeq(tree, LAMBDA x : less(side, item, x))

getTree(ob, side) ==
  CASE side = "bids" -> [tree |-> ob.bids, err |-> FALSE]
    [] side = "asks" -> [tree |-> ob.asks, err |-> FALSE]
    [] OTHER -> [tree |-> <<>>, err |-> TRUE]

\* Faulty variant: a mutation of one side drops the levels of the other
\* side that the side's best price crosses.
withTreeUncrossed(ob, side, tree) ==
  LET other == IF side = "bids" THEN "asks" ELSE "bids"
      kept == IF tree = <<>> THEN ob[other]
              ELSE SelectSeq(ob[other],
                             LAMBDA l : IF side = "bids" THEN l.Price > tree[1].Price
                                        ELSE l.Price < tree[1].Price)
  IN  [ob EXCEPT ![side] = tree, ![other] = kept]

\* The tree returned by getTree is a pointer into the book: a mutation of
\* it is a mutation of that side of the book.
withTree(ob, side, tree) == [ob EXCEPT ![side] = tree]

\* Faulty variant: the removal test is size < 0.
SetKeepsZero(ob, p, size, side, eventTime) ==
  LET g == getTree(ob, side)
  IN  IF g.err THEN [ob |-> ob, err |-> TRUE]
      ELSE IF size < 0
        THEN [ob |-> withTree(ob, side, TreeDelete(g.tree, side, Level(p, 0, 0))),
              err |-> FALSE]
        ELSE [ob |-> withTree(ob, side,
                       TreeReplaceOrInsert(g.tree, side, Level(p, size, eventTime))),
              err |-> FALSE]

\* Faulty variant: a side getTree rejects is taken for the ask side.
SetDefaultsToAsks(ob, p, size, side, eventTime) ==
  LET sd == IF side = "bids" THEN "bids" ELSE "asks"
      g == getTree(ob, sd)
  IN  IF size <= 0
        THEN [ob |-> withTree(ob, sd, TreeDelete(g.tree, sd, Level(p, 0, 0))),
              err |-> FALSE]
        ELSE [ob |-> withTree(ob, sd,
                       TreeReplaceOrInsert(g.tree, sd, Level(p, size, eventTime))),
              err |-> FALSE]

Set(ob, p, size, side, eventTime) ==
  LET g == getTree(ob, side)
  IN  IF g.err THEN [ob |-> ob, err |-> TRUE]
      ELSE IF size <= 0
        THEN [ob |-> withTree(ob, side, TreeDelete(g.tree, side, Level(p, 0, 0))),
              err |-> FALSE]
        ELSE [ob |-> withTree(ob, side,
                       TreeReplaceOrInsert(g.tree, side, Level(p, size, eventTime))),
              err |-> FALSE]

\* Faulty variant: the delta is subtracted from the existing size.
UpdateSubtracts(ob, p, delta, side, eventTime) ==
  LET g == getTree(ob, side)
  IN  IF g.err THEN [ob |-> ob, err |-> TRUE]
      ELSE
        LET existing == TreeGet(g.tree, side, Level(p, 0, 0))
            newSize == IF existing.found THEN existing.item.Size - delta ELSE delta
        IN  IF newSize <= 0
              THEN [ob |-> withTree(ob, side, TreeDelete(g.tree, side, Level(p, 0, 0))),
                    err |-> FALSE]
              ELSE [ob |-> withTree(ob, side,
                             TreeReplaceOrInsert(g.tree, side, Level(p, newSize, eventTime))),
                    err |-> FALSE]

\* Faulty variant: the existing size is not added to the delta.
UpdateIgnoresExisting(ob, p, delta, side, eventTime) ==
  LET g == getTree(ob, side)
  IN  IF g.err THEN [ob |-> ob, err |-> TRUE]
      ELSE IF delta <= 0
        THEN [ob |-> withTree(ob, side, TreeDelete(g.tree, side, Level(p, 0, 0))),
              err |-> FALSE]
        ELSE [ob |-> withTree(ob, side,
                       TreeReplaceOrInsert(g.tree, side, Level(p, delta, eventTime))),
              err |-> FALSE]

Update(ob, p, delta, side, eventTime) ==
  LET g == getTree(ob, side)
  IN  IF g.err THEN [ob |-> ob, err |-> TRUE]
      ELSE
        LET existing == TreeGet(g.tree, side, Level(p, 0, 0))
            newSize == IF existing.found THEN existing.item.Size + delta ELSE delta
        IN  IF newSize <= 0
              THEN [ob |-> withTree(ob, side, TreeDelete(g.tree, side, Level(p, 0, 0))),
                    err |-> FALSE]
              ELSE [ob |-> withTree(ob, side,
                             TreeReplaceOrInsert(g.tree, side, Level(p, newSize, eventTime))),
                    err |-> FALSE]

\* tree.Ascend with the callback of GetTopN: the item is appended first and
\* the traversal goes on while len(levels) < n.
RECURSIVE Ascend(_, _, _, _)
Ascend(tree, i, levels, n) ==
  IF i > Len(tree) THEN levels
  ELSE LET appended == Append(levels, tree[i])
       IN  IF Len(appended) < n THEN Ascend(tree, i + 1, appended, n)
           ELSE appended

GetTopN(ob, side, n) ==
  LET g == getTree(ob, side)
  IN  IF g.err THEN [levels |-> <<>>, err |-> TRUE]
      ELSE [levels |-> Ascend(g.tree, 1, <<>>, n), err |-> FALSE]

OrderbookLen(ob, side) ==
  LET g == getTree(ob, side)
  IN  IF g.err THEN 0 ELSE Len(g.tree)

----------------------------------------------------------------------------
(* engine: Client, OrderbookWorker, Update, channels                       *)

\* Update, with the position of its Send call as a history field (id).
Upd(p, s, tok, side, et, d, i) ==
  [Price |-> p, Size |-> s, TokenID |-> tok, Side |-> side, EventTime |-> et,
   IsDelta |-> d, id |-> i]

NoUpdate == Upd(0, 0, "A", "bids", 0, FALSE, 0)

\* The updates callers pass to Send in Spec: for each token an absolute set
\* carrying a source timestamp and a delta carrying none (EventTime 0 is the
\* zero time).
EngineUpdates(i) ==
  {Upd(1, 1, tok, "bids", 1, FALSE, i) : tok \in Tokens}
    \cup {Upd(1, 1, tok, "bids", 0, TRUE, i) : tok \in Tokens}

\* The updates callers pass to Send in SpecSnap: absolute sets of one level
\* with different sizes and timestamps, and a set for a second token.
SnapUpdates(i) ==
  {Upd(1, 1, "A", "bids", 1, FALSE, i), Upd(1, 2, "A", "bids", 2, FALSE, i),
   Upd(1, 1, "B", "bids", 1, FALSE, i)}

\* The updates callers pass to Send in SpecSide: a valid bid, a set and a
\* delta whose side getTree rejects, and a valid ask.
SideUpdates(i) ==
  {Upd(1, 1, "A", "bids", 1, FALSE, i), Upd(2, 1, "A", "buy", 1, FALSE, i),
   Upd(1, 1, "A", "buy", 0, TRUE, i), Upd(2, 2, "A", "asks", 2, FALSE, i)}

\* The updates callers pass to Send in SpecTokens: a bid of token A, a set
\* of token B whose side getTree rejects, and an ask delta of token B.
TokenUpdates(i) ==
  {Upd(1, 1, "A", "bids", 1, FALSE, i), Upd(1, 1, "B", "buy", 1, FALSE, i),
   Upd(2, 1, "B", "asks", 0, TRUE, i)}

\* The feed of SpecWriter, one update per Send call: a zero-size ask that
\* creates token A's worker with an empty book, two bids of A at rising
\* prices (the second without a source timestamp), an ask of token B.
WriterUpdates(i) ==
  CASE i = 1 -> {Upd(1, 0, "A", "asks", 1, FALSE, i)}
    [] i = 2 -> {Upd(1, 1, "A", "bids", 1, FALSE, i)}
    [] i = 3 -> {Upd(2, 2, "A", "bids", 0, FALSE, i)}
    [] OTHER -> {Upd(1, 1, "B", "asks", 2, FALSE, i)}

\* time.Now() in the worker: one instant, later than the source timestamps.
NowTimes == {3}

\* Faulty variant: the channel takes one element more than its capacity.
ChanFullOffByOne(ch) == Len(ch) > maximumUpdates

\* make(chan Update, maximumUpdates): a buffered channel is a FIFO queue.
ChanFull(ch) == Len(ch) >= maximumUpdates

\* Faulty variant: the queue hands out the newest element first.
ChanSendLifo(ch, u) == <<u>> \o ch

ChanSend(ch, u) == Append(ch, u)

\* Faulty variant: on a full queue the oldest element makes room.
SendEvictOldest(ch, u) ==
  IF ~ChanFull(ch) THEN [ch |-> ChanSend(ch, u), ok |-> TRUE]
  ELSE [ch |-> ChanSend(Tail(ch), u), ok |-> FALSE]

\* select { case ch <- u: true; default: false }
TrySend(ch, u) ==
  IF ~ChanFull(ch) THEN [ch |-> ChanSend(ch, u), ok |-> TRUE]
  ELSE [ch |-> ch, ok |-> FALSE]

\* Faulty variant: the lookup never finds the entry.
LookupNever(m, tok) == FALSE

\* worker, ok := c.orderbookWorkers[tok]
Lookup(m, tok) == m[tok] # 0

\* What a GetTopN that runs while the worker is inside Set/Update may see:
\* the side before the mutation, the side after it, or levels whose fields
\* come partly from the old and partly from the new level (the book has
\* no lock and a Level is several words wide).
RacyGetTopN(old, new, side, n) ==
  LET a == GetTopN(old, side, n).levels
      b == GetTopN(new, side, n).levels
      Cand(i) ==
        {b[i]} \cup
        UNION {{Level(b[i].Price, sz, tm) : sz \in {a[j].Size, b[i].Size},
                                            tm \in {a[j].UpdatedAt, b[i].UpdatedAt}}
               : j \in {k \in DOMAIN a : a[k].Price = b[i].Price}}
      AllCand == UNION {Cand(i) : i \in DOMAIN b}
  IN  {a, b} \cup {s \in [DOMAIN b -> AllCand] : \A i \in DOMAIN b : s[i] \in Cand(i)}

----------------------------------------------------------------------------
(* engine: SnapshotWriter                                                  *)

\* int16(level)
ToInt16(x) == ((x + 32768) % 65536) - 32768

\* The rows writeSnapshots appends for one side of one snapshot: range
\* indices start at 0, a zero UpdatedAt is replaced by now.
SideRows(tokenID, side, levels, now) ==
  [i \in 1..Len(levels) |->
     [Time |-> IF levels[i].UpdatedAt = 0 THEN now ELSE levels[i].UpdatedAt,
      TokenID |-> tokenID, Side |-> side, Level |-> ToInt16(i - 1),
      Price |-> levels[i].Price, Size |-> levels[i].Size]]

\* The params slice writeSnapshots builds from the snapshots: per
\* snapshot the bid rows, then the ask rows.
RECURSIVE BuildParams(_, _)
BuildParams(snaps, now) ==
  IF snaps = <<>> THEN <<>>
  ELSE SideRows(Head(snaps).TokenID, "bid", Head(snaps).Bids, now)
         \o SideRows(Head(snaps).TokenID, "ask", Head(snaps).Asks, now)
         \o BuildParams(Tail(snaps), now)

----------------------------------------------------------------------------
(* polymarket/websocket: what a read of the stream yields                  *)

BookEvent == "book"

PriceChangeEvent == "price_change"

TickSizeChangeEvent == "tick_size_change"

BestBidAskEvent == "best_bid_ask"

NewMarketEvent == "new_market"

MarketResolvedEvent == "market_resolved"

KnownEvents == {BookEvent, PriceChangeEvent, TickSizeChangeEvent, BestBidAskEvent,
                NewMarketEvent, MarketResolvedEvent}

\* What c.conn.ReadMessage() hands back: a connection error, or raw bytes
\* that are or are not JSON of the base shape, carry some event_type, and
\* do or do not unmarshal into the struct of that type.
Frame(connOK, jsonOK, eventType, payloadOK) ==
  [connOK |-> connOK, jsonOK |-> jsonOK, eventType |-> eventType, payloadOK |-> payloadOK]

NoFrame == Frame(FALSE, FALSE, "", FALSE)

Frames ==
  {Frame(FALSE, FALSE, "", FALSE),               \* the connection failed
   Frame(TRUE, FALSE, "", FALSE),                \* malformed JSON
   Frame(TRUE, TRUE, "last_trade_price", TRUE),  \* an event type not in the switch
   Frame(TRUE, TRUE, BookEvent, FALSE),          \* a book with a wrong field type
   Frame(TRUE, TRUE, BookEvent, TRUE),
   Frame(TRUE, TRUE, PriceChangeEvent, TRUE),
   Frame(TRUE, TRUE, TickSizeChangeEvent, TRUE),
   Frame(TRUE, TRUE, BestBidAskEvent, TRUE),
   Frame(TRUE, TRUE, NewMarketEvent, TRUE),
   Frame(TRUE, TRUE, MarketResolvedEvent, TRUE)}

\* The payload fields of Message; all but the one the switch sets are nil.
PayloadFields == {"Book", "PriceChange", "BestBidAsk", "TickSizeChange",
                  "LastTradePrice", "NewMarket", "MarketResolved"}

\* What the well-formed book and price_change frames above carry.
BookPayload ==
  [AssetID |-> "A", Buys |-> <<[Price |-> 1, Size |-> 1]>>,
   Sells |-> <<[Price |-> 2, Size |-> 1]>>]

PriceChangePayload == [AssetID |-> "A", Price |-> 1, Size |-> 1, Side |-> "BUY"]

\* The Message each case of the switch builds: its EventType and the one
\* payload field it sets.
MessageOf(eventType) ==
  CASE eventType = BookEvent ->
         [err |-> "none", EventType |-> BookEvent, nonNil |-> {"Book"}]
    [] eventType = PriceChangeEvent ->
         [err |-> "none", EventType |-> PriceChangeEvent, nonNil |-> {"PriceChange"}]
    [] eventType = TickSizeChangeEvent ->
         [err |-> "none", EventType |-> PriceChangeEvent, nonNil |-> {"TickSizeChange"}]
    [] eventType = BestBidAskEvent ->
         [err |-> "none", EventType |-> PriceChangeEvent, nonNil |-> {"BestBidAsk"}]
    [] eventType = NewMarketEvent ->
         [err |-> "none", EventType |-> PriceChangeEvent, nonNil |-> {"NewMarket"}]
    [] eventType = MarketResolvedEvent ->
         [err |-> "none", EventType |-> PriceChangeEvent, nonNil |-> {"MarketResolved"}]

\* Client.ParseMessage: the message, or the error it returns.
ParseMessage(f) ==
  IF ~f.jsonOK THEN [err |-> "couldn't parse base message", EventType |-> "", nonNil |-> {}]
  ELSE IF f.eventType \notin KnownEvents
    THEN [err |-> "couldn't find event type", EventType |-> "", nonNil |-> {}]
  ELSE IF ~f.payloadOK
    THEN [err |-> "couldn't parse event", EventType |-> "", nonNil |-> {}]
  ELSE MessageOf(f.eventType)

\* Client.ReadMessage, case result := <-resultCh: the error it returns
\* ("none": a message and a nil error).
ReadResult(f) ==
  IF ~f.connOK THEN "couldn't read message"
  ELSE IF ParseMessage(f).err # "none" THEN "couldn't parse message"
  ELSE "none"

----------------------------------------------------------------------------
VARIABLES
  ob,      \* SpecBook: the order book under test
  last,    \* SpecBook: the last operation, its arguments, the book before it
           \*           and what it returned
  prev,    \* SpecPair: the operation before the last one
  orderbookWorkers,  \* Client.orderbookWorkers: token -> 0 (absent) or the
                     \*   number of the worker created for it
  mu,                \* Client.mu: readers holding it,
                     \*   writer inside Lock() .. Unlock()
  updates,           \* Client.updates, the inbound channel
  ctxDone,           \* the context passed to Start has been cancelled
  rpc, rcur,         \* Client.Start: position in the loop, update in hand
  wq,                \* OrderbookWorker.updates of each token's worker
  wpc, wcur,         \* OrderbookWorker.start: position, update in hand
  books,             \* OrderbookWorker.ob of each token's worker
  spc, sdepth, stodo, stok, sbids,   \* TakeSnapshots: position, depth, map
                     \*   entries not yet visited, entry being read, its bids
  snapshots,         \* TakeSnapshots: the slice built / returned
  sendLog,           \* history: every Send call, in order, with its result
  applied,           \* history: per token, the updates applied to its book
  forwarded, dropped, \* history: ids put on a worker queue / dropped there
  spawned,           \* history: per token, number of worker.start spawned
  swpc,              \* SnapshotWriter.Start: position ("none": not constructed)
  swdepth,           \* SnapshotWriter.depth
  swsnaps, params,   \* writeSnapshots: the slice TakeSnapshots returned, the
                     \*   rows built from it
  storeLog,          \* history: every InsertOrderBookSnapshotBatch call with
                     \*   its rows and its outcome
  ticks,             \* history: ticks of the snapshot ticker taken so far
  apc, aret,         \* Polymarket.Start: position, value returned
  lpc,               \* Polymarket.syncLoop: position ("none": not spawned)
  lstopped,          \* history: syncLoop has taken its <-ctx.Done() case
  rounds,            \* history: ticks of the market-sync ticker taken so far
  readLog,           \* history: every completed ws.ReadMessage call with the
                     \*   frame it got and what it returned
  deadline,          \* the websocket connection's read deadline
  db,                \* the store: ids of this platform's market and token rows
  lplan, ldone,      \* syncMarkets: the upserts still to make, those made
  tokenIDs,          \* syncLoop: what GetTokenIDsForPlatform handed back
  llog,              \* history: the calls syncLoop made since it was spawned
                     \*   or since its last tick, each with its error
  subFrames,         \* history: the subscription frames written, each with
                     \*   the number of ticks taken before it
  client,            \* GetAllMarkets: which venue's REST client runs
  pages,             \* the venue: the answer it gives to each cursor
  cpc,               \* GetAllMarkets: position
  nextCursor,        \* GetAllMarkets: the cursor of the next request
  markets,           \* GetAllMarkets: the markets appended so far
  cret,              \* GetAllMarkets: what it returned
  requests,          \* history: the cursor of every request made
  data,              \* Price.UnmarshalJSON: the bytes handed in
  pres,              \* Price.UnmarshalJSON: the value stored, the error
  wsc,               \* SpecConn: Polymarket.ws and the websocket.Client behind
                     \*   it: connection, stopPing, pingLoop, Start and Stop
  rd                 \* SpecConn: the ReadMessage calls: their result
                     \*   channels and background readers

bookVars == <<ob, last, prev>>

engineVars == <<orderbookWorkers, mu, updates, ctxDone, rpc, rcur, wq, wpc, wcur,
                books, spc, sdepth, stodo, stok, sbids, snapshots,
                sendLog, applied, forwarded, dropped, spawned>>

writerVars == <<swpc, swdepth, swsnaps, params, storeLog, ticks>>

adapterVars == <<apc, aret, lpc, lstopped, rounds, readLog, deadline,
                 db, lplan, ldone, tokenIDs, llog, subFrames>>

syncVars == <<db, lplan, ldone, tokenIDs, llog, subFrames>>

clobVars == <<client, pages, cpc, nextCursor, markets, cret, requests>>

priceVars == <<data, pres>>

connVars == <<wsc, rd>>

vars == <<ob, last, prev, orderbookWorkers, mu, updates, ctxDone, rpc, rcur, wq, wpc, wcur,
          books, spc, sdepth, stodo, stok, sbids, snapshots,
          sendLog, applied, forwarded, dropped, spawned,
          swpc, swdepth, swsnaps, params, storeLog, ticks,
          apc, aret, lpc, lstopped, rounds, readLog, deadline,
          db, lplan, ldone, tokenIDs, llog, subFrames,
          client, pages, cpc, nextCursor, markets, cret, requests,
          data, pres, wsc, rd>>

----------------------------------------------------------------------------
(* SpecBook: one order book under arbitrary operations                    *)

NoOp == [op |-> "none", p |-> 0, size |-> 0, side |-> "bids", t |-> 0, n |-> 0,
         pre |-> New, err |-> FALSE, levels |-> <<>>, len |-> 0]

InitBook ==
  /\ ob = New
  /\ last = NoOp
  /\ prev = NoOp

\* Largest size stored on either side of a book.
SizesOf(b) == {b.bids[i].Size : i \in DOMAIN b.bids} \cup {b.asks[i].Size : i \in DOMAIN b.asks}

DoSet(p, size, side, t) ==
  LET r == Set(ob, p, size, side, t)
  IN  /\ ob' = r.ob
      /\ last' = [NoOp EXCEPT !.op = "Set", !.p = p, !.size = size, !.side = side,
                              !.t = t, !.pre = ob, !.err = r.err]
      /\ UNCHANGED <<prev, engineVars, writerVars, adapterVars, clobVars, priceVars, connVars>>

DoUpdate(p, delta, side, t) ==
  LET r == Update(ob, p, delta, side, t)
  IN  /\ \A s \in SizesOf(r.ob) : s <= MaxSize     \* keeps sizes in the bound
      /\ ob' = r.ob
      /\ last' = [NoOp EXCEPT !.op = "Update", !.p = p, !.size = delta, !.side = side,
                              !.t = t, !.pre = ob, !.err = r.err]
      /\ UNCHANGED <<prev, engineVars, writerVars, adapterVars, clobVars, priceVars, connVars>>

DoGetTopN(side, n) ==
  LET r == GetTopN(ob, side, n)
  IN  /\ ob' = ob
      /\ last' = [NoOp EXCEPT !.op = "GetTopN", !.side = side, !.n = n, !.pre = ob,
                              !.err = r.err, !.levels = r.levels]
      /\ UNCHANGED <<prev, engineVars, writerVars, adapterVars, clobVars, priceVars, connVars>>

DoLen(side) ==
  /\ ob' = ob
  /\ last' = [NoOp EXCEPT !.op = "Len", !.side = side, !.pre = ob,
                          !.len = OrderbookLen(ob, side)]
  /\ UNCHANGED <<prev, engineVars, writerVars, adapterVars, clobVars, priceVars, connVars>>

\* With a side that getTree rejects, Set and Update return before they look
\* at their other arguments, so one choice of those is offered.
NextBook ==
  \/ \E p \in Prices, size \in Sizes, side \in ValidSides, t \in Times : DoSet(p, size, side, t)
  \/ \E side \in Sides \ ValidSides : DoSet(1, 1, side, 1)
  \/ \E p \in Prices, delta \in Sizes, side \in ValidSides, t \in Times : DoUpdate(p, delta, side, t)
  \/ \E side \in Sides \ ValidSides : DoUpdate(1, 1, side, 1)
  \/ \E side \in Sides, n \in 0..MaxN : DoGetTopN(side, n)
  \/ \E side \in Sides : DoLen(side)

----------------------------------------------------------------------------
(* Spec: the engine                                                        *)

\* engine.New: empty worker map, empty inbound channel; Start is running.
InitEngine ==
  /\ orderbookWorkers = [t \in Tokens |-> 0]
  /\ mu = [readers |-> 0, pending |-> FALSE]
  /\ updates = <<>>
  /\ ctxDone = FALSE
  /\ rpc = "select"
  /\ rcur = NoUpdate
  /\ wq = [t \in Tokens |-> <<>>]
  /\ wpc = [t \in Tokens |-> "none"]
  /\ wcur = [t \in Tokens |-> [u |-> NoUpdate, eventTime |-> 0]]
  /\ books = [t \in Tokens |-> New]
  /\ spc = "idle"
  /\ sdepth = 0
  /\ stodo = {}
  /\ stok = "A"
  /\ sbids = <<>>
  /\ snapshots = <<>>
  /\ sendLog = <<>>
  /\ applied = [t \in Tokens |-> <<>>]
  /\ forwarded = {}
  /\ dropped = {}
  /\ spawned = [t \in Tokens |-> 0]

\* No SnapshotWriter has been constructed.
InitNoWriter ==
  /\ swpc = "none"
  /\ swdepth = 0
  /\ swsnaps = <<>>
  /\ params = <<>>
  /\ storeLog = <<>>
  /\ ticks = 0

\* polymarket.New: no websocket yet, Start has not been called.
InitAdapter ==
  /\ apc = "idle"
  /\ aret = "none"
  /\ lpc = "none"
  /\ lstopped = FALSE
  /\ rounds = 0
  /\ readLog = <<>>
  /\ deadline = "none"
  /\ db = [markets |-> {}, tokens |-> {}]
  /\ lplan = <<>>
  /\ ldone = <<>>
  /\ tokenIDs = {}
  /\ llog = <<>>
  /\ subFrames = <<>>

\* No REST client is paginating.
InitNoClob ==
  /\ client = "none"
  /\ pages = <<>>
  /\ cpc = "none"
  /\ nextCursor = "nil"
  /\ markets = <<>>
  /\ cret = [markets |-> <<>>, err |-> "none"]
  /\ requests = <<>>

\* No price is being decoded.
InitNoPrice ==
  /\ data = <<>>
  /\ pres = [p |-> <<0, 0, 0, 0>>, err |-> "none", done |-> FALSE]

\* polymarket.New: p.ws is nil; no connection, no keepalive, no read yet.
InitConn ==
  /\ wsc = [start |-> "idle", ws |-> "nil", conn |-> "none", stopPing |-> "none",
            ppc |-> "none", pings |-> <<>>, stopLog |-> <<>>]
  /\ rd = [call |-> 0, chans |-> <<>>, readers |-> <<>>, deadline |-> "none",
           returns |-> <<>>]

Init ==
  InitBook /\ InitEngine /\ InitNoWriter /\ InitAdapter /\ InitNoClob /\ InitNoPrice /\ InitConn

\* Client.Send
Send(u) ==
  LET r == TrySend(updates, u)
  IN  /\ Len(sendLog) < MaxSends
      /\ updates' = r.ch
      /\ sendLog' = Append(sendLog, [u |-> u, ok |-> r.ok])
      /\ UNCHANGED <<bookVars, writerVars, adapterVars, clobVars, priceVars, connVars, orderbookWorkers, mu, ctxDone, rpc, rcur, wq, wpc, wcur,
                     books, spc, sdepth, stodo, stok, sbids, snapshots,
                     applied, forwarded, dropped, spawned>>

\* the owner of the context cancels it
Cancel ==
  /\ ~ctxDone
  /\ ctxDone' = TRUE
  /\ UNCHANGED <<bookVars, writerVars, adapterVars, clobVars, priceVars, connVars, orderbookWorkers, mu, updates, rpc, rcur, wq, wpc, wcur,
                 books, spc, sdepth, stodo, stok, sbids, snapshots,
                 sendLog, applied, forwarded, dropped, spawned>>

\* Client.Start, case <-ctx.Done()
Start_Done ==
  /\ rpc = "select"
  /\ ctxDone
  /\ rpc' = "done"
  /\ UNCHANGED <<bookVars, writerVars, adapterVars, clobVars, priceVars, connVars, orderbookWorkers, mu, updates, ctxDone, rcur, wq, wpc, wcur,
                 books, spc, sdepth, stodo, stok, sbids, snapshots,
                 sendLog, applied, forwarded, dropped, spawned>>

\* Client.Start, case update := <-c.updates
Start_Recv ==
  /\ rpc = "select"
  /\ Len(updates) > 0
  /\ rcur' = Head(updates)
  /\ updates' = Tail(updates)
  /\ rpc' = "rlock"
  /\ UNCHANGED <<bookVars, writerVars, adapterVars, clobVars, priceVars, connVars, orderbookWorkers, mu, ctxDone, wq, wpc, wcur,
                 books, spc, sdepth, stodo, stok, sbids, snapshots,
                 sendLog, applied, forwarded, dropped, spawned>>

\* Faulty variant: the lookup is taken to succeed, so no worker is created.
Start_LookupAssumesPresent ==
  /\ rpc = "rlock"
  /\ ~mu.pending
  /\ rpc' = "forward"
  /\ UNCHANGED <<bookVars, writerVars, adapterVars, clobVars, priceVars, connVars, orderbookWorkers, mu, updates, ctxDone, rcur, wq, wpc, wcur,
                 books, spc, sdepth, stodo, stok, sbids, snapshots,
                 sendLog, applied, forwarded, dropped, spawned>>

\* c.mu.RLock(); worker, ok := c.orderbookWorkers[update.TokenID];
\* c.mu.RUnlock().  Only this goroutine ever takes the write lock, so its own
\* read lock excludes nobody and the three statements are one step.
Start_Lookup ==
  /\ rpc = "rlock"
  /\ ~mu.pending
  /\ rpc' = IF Lookup(orderbookWorkers, rcur.TokenID) THEN "forward" ELSE "lock"
  /\ UNCHANGED <<bookVars, writerVars, adapterVars, clobVars, priceVars, connVars, orderbookWorkers, mu, updates, ctxDone, rcur, wq, wpc, wcur,
                 books, spc, sdepth, stodo, stok, sbids, snapshots,
                 sendLog, applied, forwarded, dropped, spawned>>

\* c.mu.Lock() is called: from now on new readers wait
Start_Lock ==
  /\ rpc = "lock"
  /\ mu' = [mu EXCEPT !.pending = TRUE]
  /\ rpc' = "locking"
  /\ UNCHANGED <<bookVars, writerVars, adapterVars, clobVars, priceVars, connVars, orderbookWorkers, updates, ctxDone, rcur, wq, wpc, wcur,
                 books, spc, sdepth, stodo, stok, sbids, snapshots,
                 sendLog, applied, forwarded, dropped, spawned>>

\* c.mu.Lock() returns once no reader holds the lock; then the re-check
\* under the write lock, the insertion, go worker.start(ctx), c.mu.Unlock().
\* Nothing else runs under the write lock, so the critical section is one
\* step.
Start_Insert ==
  LET tok == rcur.TokenID
  IN  /\ rpc = "locking"
      /\ mu.readers = 0
      /\ IF ~Lookup(orderbookWorkers, tok)
           THEN /\ orderbookWorkers' = [orderbookWorkers EXCEPT ![tok] = spawned[tok] + 1]
                /\ books' = [books EXCEPT ![tok] = New]
                /\ wq' = [wq EXCEPT ![tok] = <<>>]
                /\ wpc' = [wpc EXCEPT ![tok] = "select"]
                /\ spawned' = [spawned EXCEPT ![tok] = @ + 1]
           ELSE UNCHANGED <<orderbookWorkers, books, wq, wpc, spawned>>
      /\ mu' = [mu EXCEPT !.pending = FALSE]
      /\ rpc' = "forward"
      /\ UNCHANGED <<bookVars, writerVars, adapterVars, clobVars, priceVars, connVars, updates, ctxDone, rcur, wcur,
                     spc, sdepth, stodo, stok, sbids, snapshots,
                     sendLog, applied, forwarded, dropped>>

\* Faulty variant: a plain channel send, which waits for a free slot.
Start_ForwardBlocking ==
  LET tok == rcur.TokenID
  IN  /\ rpc = "forward"
      /\ ~ChanFull(wq[tok])
      /\ wq' = [wq EXCEPT ![tok] = ChanSend(@, rcur)]
      /\ forwarded' = forwarded \cup {rcur.id}
      /\ rpc' = "select"
      /\ rcur' = NoUpdate
      /\ UNCHANGED <<bookVars, writerVars, adapterVars, clobVars, priceVars, connVars, orderbookWorkers, mu, updates, ctxDone, wpc, wcur,
                     books, spc, sdepth, stodo, stok, sbids, snapshots,
                     sendLog, applied, dropped, spawned>>

\* select { case worker.updates <- update: ; default: log }
Start_Forward ==
  LET tok == rcur.TokenID
      r == TrySend(wq[tok], rcur)
  IN  /\ rpc = "forward"
      /\ wq' = [wq EXCEPT ![tok] = r.ch]
      /\ IF r.ok THEN forwarded' = forwarded \cup {rcur.id} /\ dropped' = dropped
                 ELSE dropped' = dropped \cup {rcur.id} /\ forwarded' = forwarded
      /\ rpc' = "select"
      /\ rcur' = NoUpdate
      /\ UNCHANGED <<bookVars, writerVars, adapterVars, clobVars, priceVars, connVars, orderbookWorkers, mu, updates, ctxDone, wpc, wcur,
                     books, spc, sdepth, stodo, stok, sbids, snapshots,
                     sendLog, applied, spawned>>

\* Faulty variant: the case logs and the loop goes on.
start_DoneNoReturn(tok) ==
  /\ wpc[tok] = "select"
  /\ ctxDone
  /\ wpc' = wpc
  /\ UNCHANGED <<bookVars, writerVars, adapterVars, clobVars, priceVars, connVars, orderbookWorkers, mu, updates, ctxDone,
                 rpc, rcur, wq, wcur, books, spc, sdepth, stodo, stok, sbids, snapshots,
                 sendLog, applied, forwarded, dropped, spawned>>

\* OrderbookWorker.start, case <-ctx.Done()
start_Done(tok) ==
  /\ wpc[tok] = "select"
  /\ ctxDone
  /\ wpc' = [wpc EXCEPT ![tok] = "done"]
  /\ UNCHANGED <<bookVars, writerVars, adapterVars, clobVars, priceVars, connVars, orderbookWorkers, mu, updates, ctxDone, rpc, rcur, wq, wcur,
                 books, spc, sdepth, stodo, stok, sbids, snapshots,
                 sendLog, applied, forwarded, dropped, spawned>>

\* OrderbookWorker.start, case update := <-obw.updates, up to the call of
\* Set/Update: a zero event time is replaced by time.Now()
start_Recv(tok, now) ==
  LET u == Head(wq[tok])
  IN  /\ wpc[tok] = "select"
      /\ Len(wq[tok]) > 0
      /\ wq' = [wq EXCEPT ![tok] = Tail(@)]
      /\ wcur' = [wcur EXCEPT ![tok] =
                    [u |-> u, eventTime |-> IF u.EventTime = 0 THEN now ELSE u.EventTime]]
      /\ wpc' = [wpc EXCEPT ![tok] = "apply"]
      /\ UNCHANGED <<bookVars, writerVars, adapterVars, clobVars, priceVars, connVars, orderbookWorkers, mu, updates, ctxDone, rpc, rcur,
                     books, spc, sdepth, stodo, stok, sbids, snapshots,
                     sendLog, applied, forwarded, dropped, spawned>>

\* The book the worker's call in progress leaves behind.
BookAfter(tok) ==
  LET u == wcur[tok].u
  IN  IF u.IsDelta THEN Update(books[tok], u.Price, u.Size, u.Side, wcur[tok].eventTime).ob
      ELSE Set(books[tok], u.Price, u.Size, u.Side, wcur[tok].eventTime).ob

\* obw.ob.Update(...) / obw.ob.Set(...) completes
start_Apply(tok) ==
  /\ wpc[tok] = "apply"
  /\ books' = [books EXCEPT ![tok] = BookAfter(tok)]
  /\ applied' = [applied EXCEPT ![tok] = Append(@, wcur[tok].u)]
  /\ wpc' = [wpc EXCEPT ![tok] = "select"]
  /\ UNCHANGED <<bookVars, writerVars, adapterVars, clobVars, priceVars, connVars, orderbookWorkers, mu, updates, ctxDone, rpc, rcur, wq, wcur,
                 spc, sdepth, stodo, stok, sbids, snapshots,
                 sendLog, forwarded, dropped, spawned>>

\* The levels one GetTopN of TakeSnapshots can return for a token's side.
SnapshotRead(tok, side, n) ==
  IF wpc[tok] = "apply" THEN RacyGetTopN(books[tok], BookAfter(tok), side, n)
  ELSE {GetTopN(books[tok], side, n).levels}

\* TakeSnapshots: c.mu.RLock() and the start of the range over the map
TakeSnapshots_RLock(depth) ==
  /\ spc = "idle"
  /\ ~mu.pending
  /\ mu' = [mu EXCEPT !.readers = @ + 1]
  /\ sdepth' = depth
  /\ stodo' = {t \in Tokens : Lookup(orderbookWorkers, t)}
  /\ snapshots' = <<>>
  /\ spc' = "range"
  /\ UNCHANGED <<bookVars, writerVars, adapterVars, clobVars, priceVars, connVars, orderbookWorkers, updates, ctxDone, rpc, rcur, wq, wpc, wcur,
                 books, stok, sbids, sendLog, applied, forwarded, dropped, spawned>>

\* bids, _ := worker.ob.GetTopN("bids", depth) for the next map entry
TakeSnapshots_Bids(tok) ==
  /\ spc = "range"
  /\ tok \in stodo
  /\ \E lv \in SnapshotRead(tok, "bids", sdepth) : sbids' = lv
  /\ stok' = tok
  /\ spc' = "asks"
  /\ UNCHANGED <<bookVars, writerVars, adapterVars, clobVars, priceVars, connVars, orderbookWorkers, mu, updates, ctxDone, rpc, rcur, wq, wpc, wcur,
                 books, sdepth, stodo, snapshots, sendLog, applied, forwarded, dropped,
                 spawned>>

\* asks, _ := worker.ob.GetTopN("asks", depth); snapshots = append(...)
TakeSnapshots_Asks ==
  /\ spc = "asks"
  /\ \E lv \in SnapshotRead(stok, "asks", sdepth) :
       snapshots' = Append(snapshots, [TokenID |-> stok, Bids |-> sbids, Asks |-> lv])
  /\ stodo' = stodo \ {stok}
  /\ sbids' = <<>>
  /\ spc' = "range"
  /\ UNCHANGED <<bookVars, writerVars, adapterVars, clobVars, priceVars, connVars, orderbookWorkers, mu, updates, ctxDone, rpc, rcur, wq, wpc, wcur,
                 books, sdepth, stok, sendLog, applied, forwarded, dropped, spawned>>

\* Faulty variant: the return without the deferred c.mu.RUnlock().
TakeSnapshots_ReturnKeepsLock ==
  /\ spc = "range"
  /\ stodo = {}
  /\ spc' = "idle"
  /\ snapshots' = <<>>
  /\ sdepth' = 0
  /\ stok' = "A"
  /\ UNCHANGED <<bookVars, adapterVars, clobVars, priceVars, connVars, orderbookWorkers, mu, updates, ctxDone, rpc, rcur, wq, wpc, wcur,
                 books, stodo, sbids, sendLog, applied, forwarded, dropped, spawned>>

\* the range is over: the deferred c.mu.RUnlock() and the return; the slice
\* goes to the caller and the locals of the call are gone
TakeSnapshots_Return ==
  /\ spc = "range"
  /\ stodo = {}
  /\ mu' = [mu EXCEPT !.readers = @ - 1]
  /\ spc' = "idle"
  /\ snapshots' = <<>>
  /\ sdepth' = 0
  /\ stok' = "A"
  /\ UNCHANGED <<bookVars, adapterVars, clobVars, priceVars, connVars, orderbookWorkers, updates, ctxDone, rpc, rcur, wq, wpc, wcur,
                 books, stodo, sbids, sendLog, applied, forwarded, dropped, spawned>>

EngineStep ==
  \/ Cancel
  \/ Start_Done
  \/ Start_Recv
  \/ Start_Lookup
  \/ Start_Lock
  \/ Start_Insert
  \/ Start_Forward
  \/ \E tok \in Tokens : start_Done(tok)
  \/ \E tok \in Tokens, now \in NowTimes : start_Recv(tok, now)
  \/ \E tok \in Tokens : start_Apply(tok)

\* Spec: senders, router, workers, cancellation.
Next ==
  \/ \E u \in EngineUpdates(Len(sendLog) + 1) : Send(u)
  \/ EngineStep

Spec == Init /\ [][Next]_vars

\* SpecSnap: the same with TakeSnapshots running concurrently.
NextSnap ==
  \/ \E u \in SnapUpdates(Len(sendLog) + 1) : Send(u)
  \/ EngineStep
  \/ \E depth \in 1..MaxDepth : TakeSnapshots_RLock(depth)
  \/ \E tok \in Tokens : TakeSnapshots_Bids(tok)
  \/ TakeSnapshots_Asks
  \/ TakeSnapshots_Return /\ UNCHANGED writerVars

SpecSnap == Init /\ [][NextSnap]_vars

SpecBook == Init /\ [][NextBook]_vars

----------------------------------------------------------------------------
(* SpecPair: one order book, the last two operations on it remembered      *)

\* ob.Set(p, size, side, t)
PairSet(p, size, side, t) ==
  LET r == Set(ob, p, size, side, t)
  IN  /\ ob' = r.ob
      /\ last' = [NoOp EXCEPT !.op = "Set", !.p = p, !.size = size, !.side = side,
                              !.t = t, !.pre = ob, !.err = r.err]
      /\ prev' = last
      /\ UNCHANGED <<engineVars, writerVars, adapterVars, clobVars, priceVars, connVars>>

\* ob.Update(p, delta, side, t)
PairUpdate(p, delta, side, t) ==
  LET r == Update(ob, p, delta, side, t)
  IN  /\ \A s \in SizesOf(r.ob) : s <= MaxSize     \* keeps sizes in the bound
      /\ ob' = r.ob
      /\ last' = [NoOp EXCEPT !.op = "Update", !.p = p, !.size = delta, !.side = side,
                              !.t = t, !.pre = ob, !.err = r.err]
      /\ prev' = last
      /\ UNCHANGED <<engineVars, writerVars, adapterVars, clobVars, priceVars, connVars>>

\* ob.GetTopN(side, n)
PairGetTopN(side, n) ==
  LET r == GetTopN(ob, side, n)
  IN  /\ ob' = ob
      /\ last' = [NoOp EXCEPT !.op = "GetTopN", !.side = side, !.n = n, !.pre = ob,
                              !.err = r.err, !.levels = r.levels]
      /\ prev' = last
      /\ UNCHANGED <<engineVars, writerVars, adapterVars, clobVars, priceVars, connVars>>

\* Every call carries the same event time: the timestamps play no part in
\* what SpecPair is used for.
NextPair ==
  \/ \E p \in Prices, size \in Sizes, side \in ValidSides : PairSet(p, size, side, 1)
  \/ \E p \in Prices, delta \in Sizes, side \in ValidSides : PairUpdate(p, delta, side, 1)
  \/ \E side \in ValidSides : PairGetTopN(side, 1)

SpecPair == Init /\ [][NextPair]_vars

----------------------------------------------------------------------------
(* SpecWriter: the engine with a SnapshotWriter                            *)

\* NewSnapshotWriter(engine, store, interval, depth, logger) and
\* go sw.Start(ctx): the depth is whatever the configuration holds.
InitWriter ==
  /\ swpc = "select"
  /\ swdepth \in 0..MaxDepth
  /\ swsnaps = <<>>
  /\ params = <<>>
  /\ storeLog = <<>>
  /\ ticks = 0

\* SnapshotWriter.Start, case <-ctx.Done()
SnapshotWriter_Start_Done ==
  /\ swpc = "select"
  /\ ctxDone
  /\ swpc' = "done"
  /\ UNCHANGED <<bookVars, engineVars, adapterVars, clobVars, priceVars, connVars, swdepth, swsnaps, params, storeLog, ticks>>

\* SnapshotWriter.Start, case <-ticker.C: writeSnapshots is entered
SnapshotWriter_Start_Tick ==
  /\ swpc = "select"
  /\ ticks < MaxTicks
  /\ ticks' = ticks + 1
  /\ swpc' = "take"
  /\ UNCHANGED <<bookVars, engineVars, adapterVars, clobVars, priceVars, connVars, swdepth, swsnaps, params, storeLog>>

\* writeSnapshots: sw.engine.TakeSnapshots(sw.depth) is called
writeSnapshots_TakeSnapshots ==
  /\ swpc = "take"
  /\ TakeSnapshots_RLock(swdepth)

\* Faulty variant: the rows of a batch whose insert failed are put in
\* front of the rows of the next batch.
writeSnapshots_BuildRetains(now) ==
  LET kept == IF storeLog # <<>> /\ ~storeLog[Len(storeLog)].ok
                THEN storeLog[Len(storeLog)].rows ELSE <<>>
      ps == kept \o BuildParams(snapshots, now)
  IN  /\ swpc = "take"
      /\ TakeSnapshots_Return
      /\ IF Len(snapshots) = 0 \/ Len(ps) = 0
           THEN swpc' = "select" /\ swsnaps' = <<>> /\ params' = <<>>
           ELSE swpc' = "insert" /\ swsnaps' = snapshots /\ params' = ps
      /\ UNCHANGED <<swdepth, storeLog, ticks>>

\* writeSnapshots from the return of TakeSnapshots to the call of the
\* store: the two early returns, the rows built from the snapshots
writeSnapshots_Build(now) ==
  LET ps == BuildParams(snapshots, now)
  IN  /\ swpc = "take"
      /\ TakeSnapshots_Return
      /\ IF Len(snapshots) = 0 \/ Len(ps) = 0
           THEN swpc' = "select" /\ swsnaps' = <<>> /\ params' = <<>>
           ELSE swpc' = "insert" /\ swsnaps' = snapshots /\ params' = ps
      /\ UNCHANGED <<swdepth, storeLog, ticks>>

\* sw.store.InsertOrderBookSnapshotBatch(ctx, params) returns, with or
\* without an error; writeSnapshots returns and its locals are gone
writeSnapshots_Insert(ok) ==
  /\ swpc = "insert"
  /\ storeLog' = Append(storeLog, [rows |-> params, snaps |-> swsnaps, ok |-> ok])
  /\ swpc' = "select"
  /\ swsnaps' = <<>>
  /\ params' = <<>>
  /\ UNCHANGED <<bookVars, engineVars, adapterVars, clobVars, priceVars, connVars, swdepth, ticks>>

WriterStep ==
  \/ SnapshotWriter_Start_Done
  \/ SnapshotWriter_Start_Tick
  \/ writeSnapshots_TakeSnapshots
  \/ \E tok \in Tokens : TakeSnapshots_Bids(tok)
  \/ TakeSnapshots_Asks
  \/ \E now \in NowTimes : writeSnapshots_Build(now)
  \/ \E ok \in BOOLEAN : writeSnapshots_Insert(ok)

NextWriter ==
  \/ \E u \in WriterUpdates(Len(sendLog) + 1) : Send(u)
  \/ EngineStep
  \/ WriterStep

\* The engine and a started snapshot writer.
InitWithWriter ==
  InitBook /\ InitEngine /\ InitWriter /\ InitAdapter /\ InitNoClob /\ InitNoPrice /\ InitConn

SpecWriter == InitWithWriter /\ [][NextWriter]_vars

\* The feed of SpecWriterFair: the first MaxLiveSends updates of the feed
\* of SpecWriter.
LiveUpdates(i) == IF i <= MaxLiveSends THEN WriterUpdates(i) ELSE {}

NextLive ==
  \/ \E u \in LiveUpdates(Len(sendLog) + 1) : Send(u)
  \/ EngineStep
  \/ WriterStep

\* Scheduling of the goroutines: a goroutine that can run does run, so a
\* step of it that stays possible is taken (WF); a select whose
\* <-ctx.Done() case is ready chooses among its ready cases at random, so
\* that case is taken if it is ready again and again (SF); a reader waiting
\* in RLock gets the lock once the writer is through, and the store's
\* insert returns (SF of the writer's steps inside writeSnapshots).
\* Senders, the owner of the context and the tickers owe nothing.
SpecWriterFair ==
  /\ InitWithWriter
  /\ [][NextLive]_vars
  /\ SF_vars(Start_Done)
  /\ WF_vars(Start_Lookup \/ Start_Lock \/ Start_Insert \/ Start_Forward)
  /\ \A tok \in Tokens : SF_vars(start_Done(tok)) /\ WF_vars(start_Apply(tok))
  /\ SF_vars(SnapshotWriter_Start_Done)
  /\ SF_vars(\/ writeSnapshots_TakeSnapshots
             \/ \E tok \in Tokens : TakeSnapshots_Bids(tok)
             \/ TakeSnapshots_Asks
             \/ \E now \in NowTimes : writeSnapshots_Build(now)
             \/ \E ok \in BOOLEAN : writeSnapshots_Insert(ok))

----------------------------------------------------------------------------
(* SpecAdapter: the Polymarket adapter                                     *)

\* Start is called: websocket.New dials
Polymarket_Start ==
  /\ apc = "idle"
  /\ apc' = "connecting"
  /\ UNCHANGED <<bookVars, engineVars, writerVars, clobVars, priceVars, connVars, syncVars, deadline, aret, lpc, lstopped, rounds, readLog>>

\* Faulty variant: the loop is spawned whatever the dial returned.
Polymarket_Start_ConnectedSpawnsAnyway(ok) ==
  /\ apc = "connecting"
  /\ lpc' = "syncMarkets0"
  /\ IF ok THEN apc' = "select" /\ aret' = aret
           ELSE apc' = "stopped" /\ aret' = "websocket connect"
  /\ UNCHANGED <<bookVars, engineVars, writerVars, clobVars, priceVars, connVars, syncVars, deadline, lstopped, rounds, readLog>>

\* websocket.New returns: on an error Start returns it wrapped; otherwise
\* p.ws = ws, go p.syncLoop(ctx), and the read loop is entered
Polymarket_Start_Connected(ok) ==
  /\ apc = "connecting"
  /\ IF ok THEN apc' = "select" /\ lpc' = "syncMarkets0" /\ aret' = aret
           ELSE apc' = "stopped" /\ aret' = "websocket connect" /\ lpc' = lpc
  /\ UNCHANGED <<bookVars, engineVars, writerVars, clobVars, priceVars, connVars, syncVars, deadline, lstopped, rounds, readLog>>

\* the read loop's select, case <-ctx.Done(): return ctx.Err()
Polymarket_Start_Done ==
  /\ apc = "select"
  /\ ctxDone
  /\ apc' = "stopped"
  /\ aret' = "context canceled"
  /\ UNCHANGED <<bookVars, engineVars, writerVars, clobVars, priceVars, connVars, syncVars, deadline, lpc, lstopped, rounds, readLog>>

\* the read loop's select, default (taken only when <-ctx.Done() is not
\* ready): p.ws.ReadMessage(ctx) is called
Polymarket_Start_Read ==
  /\ apc = "select"
  /\ ~ctxDone
  /\ apc' = "reading"
  /\ UNCHANGED <<bookVars, engineVars, writerVars, clobVars, priceVars, connVars, syncVars, deadline, aret, lpc, lstopped, rounds, readLog>>

\* Faulty variant: Start logs the error and reads on.
AfterReadSkipsError(err) ==
  apc' = "select" /\ aret' = aret

\* What Start does with the return of ReadMessage: an error is returned,
\* a message is logged and the loop goes on.
AfterRead(err) ==
  IF err = "none" THEN apc' = "select" /\ aret' = aret
  ELSE apc' = "stopped" /\ aret' = err

\* ReadMessage, case result := <-resultCh, and the return into Start
ReadMessage_Result(f) ==
  /\ apc = "reading"
  /\ Len(readLog) < MaxReads
  /\ readLog' = Append(readLog, [frame |-> f, err |-> ReadResult(f)])
  /\ AfterRead(ReadResult(f))
  /\ UNCHANGED <<bookVars, engineVars, writerVars, clobVars, priceVars, connVars, syncVars, deadline, lpc, lstopped, rounds>>

\* Faulty variant: the cancellation is returned without a read deadline
\* being set on the connection.
ReadMessage_DoneKeepsDeadline ==
  /\ apc = "reading"
  /\ ctxDone
  /\ readLog' = Append(readLog, [frame |-> NoFrame, err |-> "reading message"])
  /\ AfterRead("reading message")
  /\ UNCHANGED <<bookVars, engineVars, writerVars, clobVars, priceVars, connVars, syncVars, deadline, lpc, lstopped, rounds>>

\* ReadMessage, case <-ctx.Done(): c.conn.SetReadDeadline(time.Now()), the
\* cancellation error is returned, and the return into Start
ReadMessage_Done ==
  /\ apc = "reading"
  /\ ctxDone
  /\ readLog' = Append(readLog, [frame |-> NoFrame, err |-> "reading message"])
  /\ deadline' = "now"
  /\ AfterRead("reading message")
  /\ UNCHANGED <<bookVars, engineVars, writerVars, clobVars, priceVars, connVars, syncVars, lpc, lstopped, rounds>>

\* What the venue lists: two markets with three tokens between them.
Catalog ==
  <<[ConditionID |-> "m1", Tokens |-> <<"t1", "t2">>],
    [ConditionID |-> "m2", Tokens |-> <<"t3">>]>>

NoMarkets == <<>>

\* The upserts of one market, in the order syncMarkets makes them: the
\* market row, then one row per token.
UpsertsOf(m) ==
  <<[table |-> "markets", id |-> m.ConditionID]>> \o
  [i \in 1..Len(m.Tokens) |-> [table |-> "tokens", id |-> m.Tokens[i]]]

RECURSIVE UpsertPlan(_)
\* for _, m := range markets: all upserts of a sync, in order.
UpsertPlan(ms) ==
  IF ms = <<>> THEN <<>> ELSE UpsertsOf(Head(ms)) \o UpsertPlan(Tail(ms))

\* INSERT ... ON CONFLICT (id) DO UPDATE: the row is there afterwards.
Upsert(store, u) ==
  IF u.table = "markets" THEN [store EXCEPT !.markets = @ \cup {u.id}]
  ELSE [store EXCEPT !.tokens = @ \cup {u.id}]

\* store.GetTokenIDsForPlatform: the ids of the platform's token rows, or
\* nothing and an error.
GetTokenIDsForPlatform(store, ok) == IF ok THEN store.tokens ELSE {}

\* Faulty variant: an error of any call ends syncLoop.
AfterCallReturnsOnError(pos, ok) ==
  IF ~ok THEN "returned"
  ELSE CASE pos = "syncMarkets0" -> "GetTokenIDs0"
         [] pos = "GetTokenIDs0" -> "subscribe0"
         [] pos = "subscribe0" -> "select"
         [] pos = "syncMarkets" -> "GetTokenIDs"
         [] pos = "GetTokenIDs" -> "subscribe"
         [] pos = "subscribe" -> "select"

\* Where syncLoop goes when the call at pos has returned: before the loop
\* an error is logged and the next call is made all the same; inside the
\* loop an error is logged and `continue` goes back to the select.
AfterCall(pos, ok) ==
  CASE pos = "syncMarkets0" -> "GetTokenIDs0"
    [] pos = "GetTokenIDs0" -> "subscribe0"
    [] pos = "subscribe0" -> "select"
    [] pos = "syncMarkets" -> IF ok THEN "GetTokenIDs" ELSE "select"
    [] pos = "GetTokenIDs" -> IF ok THEN "subscribe" ELSE "select"
    [] pos = "subscribe" -> "select"

Logged(call, err) == [call |-> call, err |-> err]

\* syncMarkets: p.clob.GetAllMarkets() returns; on an error syncMarkets
\* returns it, with no market it returns nil, otherwise the loop over the
\* markets is entered
syncMarkets_GetAllMarkets(ms, ok) ==
  /\ lpc \in {"syncMarkets0", "syncMarkets"}
  /\ ldone' = <<>>
  /\ IF ok /\ ms # <<>>
       THEN /\ lplan' = UpsertPlan(ms)
            /\ lpc' = IF lpc = "syncMarkets0" THEN "upsert0" ELSE "upsert"
            /\ llog' = llog
       ELSE /\ lplan' = <<>>
            /\ lpc' = AfterCall(lpc, ok)
            /\ llog' = Append(llog, Logged("syncMarkets",
                                           IF ok THEN "none" ELSE "get all markets"))
  /\ UNCHANGED <<bookVars, engineVars, writerVars, clobVars, priceVars, connVars,
                 apc, aret, lstopped, rounds, readLog, deadline, db, tokenIDs, subFrames>>

\* Faulty variant: a failed upsert is skipped and the sync goes on with
\* the next one.
syncMarkets_UpsertGoesOn(ok) ==
  LET u == Head(lplan)
      call == IF lpc = "upsert0" THEN "syncMarkets0" ELSE "syncMarkets"
  IN  /\ lpc \in {"upsert0", "upsert"}
      /\ ldone' = Append(ldone, [u |-> u, ok |-> ok])
      /\ db' = IF ok THEN Upsert(db, u) ELSE db
      /\ lplan' = Tail(lplan)
      /\ IF Tail(lplan) = <<>>
           THEN lpc' = AfterCall(call, TRUE) /\ llog' = Append(llog, Logged("syncMarkets", "none"))
           ELSE lpc' = lpc /\ llog' = llog
      /\ UNCHANGED <<bookVars, engineVars, writerVars, clobVars, priceVars, connVars,
                     apc, aret, lstopped, rounds, readLog, deadline, tokenIDs, subFrames>>

\* syncMarkets: the next UpsertMarket / UpsertToken returns; an error is
\* returned at once, after the last upsert nil is returned
syncMarkets_Upsert(ok) ==
  LET u == Head(lplan)
      call == IF lpc = "upsert0" THEN "syncMarkets0" ELSE "syncMarkets"
  IN  /\ lpc \in {"upsert0", "upsert"}
      /\ ldone' = Append(ldone, [u |-> u, ok |-> ok])
      /\ IF ~ok
           THEN /\ db' = db
                /\ lplan' = <<>>
                /\ lpc' = AfterCall(call, FALSE)
                /\ llog' = Append(llog, Logged("syncMarkets",
                               IF u.table = "markets" THEN "upsert market" ELSE "upsert token"))
           ELSE /\ db' = Upsert(db, u)
                /\ lplan' = Tail(lplan)
                /\ IF Tail(lplan) = <<>>
                     THEN /\ lpc' = AfterCall(call, TRUE)
                          /\ llog' = Append(llog, Logged("syncMarkets", "none"))
                     ELSE lpc' = lpc /\ llog' = llog
      /\ UNCHANGED <<bookVars, engineVars, writerVars, clobVars, priceVars, connVars,
                     apc, aret, lstopped, rounds, readLog, deadline, tokenIDs, subFrames>>

\* syncLoop: p.store.GetTokenIDsForPlatform(ctx, platformName) returns
syncLoop_GetTokenIDs(ok) ==
  /\ lpc \in {"GetTokenIDs0", "GetTokenIDs"}
  /\ tokenIDs' = GetTokenIDsForPlatform(db, ok)
  /\ llog' = Append(llog, Logged("GetTokenIDs", IF ok THEN "none" ELSE "get token ids"))
  /\ lpc' = AfterCall(lpc, ok)
  /\ UNCHANGED <<bookVars, engineVars, writerVars, clobVars, priceVars, connVars,
                 apc, aret, lstopped, rounds, readLog, deadline, db, lplan, ldone, subFrames>>

\* Faulty variant: a frame is written for an empty token set as well.
subscribeToMarketsAlways(ok) ==
  /\ lpc \in {"subscribe0", "subscribe"}
  /\ IF ok
       THEN /\ subFrames' = Append(subFrames, [assets_ids |-> tokenIDs, rounds |-> rounds])
            /\ llog' = Append(llog, Logged("subscribe", "none"))
       ELSE /\ subFrames' = subFrames
            /\ llog' = Append(llog, Logged("subscribe", "subscribe"))
  /\ lpc' = AfterCall(lpc, ok)
  /\ UNCHANGED <<bookVars, engineVars, writerVars, clobVars, priceVars, connVars,
                 apc, aret, lstopped, rounds, readLog, deadline, db, lplan, ldone, tokenIDs>>

\* subscribeToMarkets: with no token nothing is written and nil returned;
\* otherwise ws.SubscribeMarket writes one frame carrying all of tokenIDs,
\* or fails
subscribeToMarkets(ok) ==
  /\ lpc \in {"subscribe0", "subscribe"}
  /\ IF tokenIDs = {}
       THEN /\ subFrames' = subFrames
            /\ llog' = Append(llog, Logged("subscribe", "none"))
       ELSE IF ok
       THEN /\ subFrames' = Append(subFrames, [assets_ids |-> tokenIDs, rounds |-> rounds])
            /\ llog' = Append(llog, Logged("subscribe", "none"))
       ELSE /\ subFrames' = subFrames
            /\ llog' = Append(llog, Logged("subscribe", "subscribe"))
  /\ lpc' = AfterCall(lpc, tokenIDs = {} \/ ok)
  /\ UNCHANGED <<bookVars, engineVars, writerVars, clobVars, priceVars, connVars,
                 apc, aret, lstopped, rounds, readLog, deadline, db, lplan, ldone, tokenIDs>>

\* syncLoop, case <-ticker.C: syncMarkets is called
syncLoop_Tick ==
  /\ lpc = "select"
  /\ rounds < MaxRounds
  /\ rounds' = rounds + 1
  /\ lpc' = "syncMarkets"
  /\ llog' = <<>>
  /\ UNCHANGED <<bookVars, engineVars, writerVars, clobVars, priceVars, connVars,
                 apc, aret, lstopped, readLog, deadline, db, lplan, ldone, tokenIDs, subFrames>>

\* syncLoop, case <-ctx.Done(): the stop is logged; the case has no return,
\* so the loop is at its select again
syncLoop_Done ==
  /\ lpc = "select"
  /\ ctxDone
  /\ lstopped' = TRUE
  /\ UNCHANGED <<bookVars, engineVars, writerVars, clobVars, priceVars, connVars, syncVars,
                 apc, aret, lpc, rounds, readLog, deadline>>

\* Polymarket.Start and the reads it makes.
StartStep ==
  \/ Polymarket_Start
  \/ \E ok \in BOOLEAN : Polymarket_Start_Connected(ok)
  \/ Polymarket_Start_Done
  \/ Polymarket_Start_Read
  \/ \E f \in Frames : ReadMessage_Result(f)
  \/ ReadMessage_Done

\* syncLoop and the calls it makes, the venue listing one of listings.
LoopStep(listings) ==
  \/ \E ms \in listings, ok \in BOOLEAN : syncMarkets_GetAllMarkets(ms, ok)
  \/ \E ok \in BOOLEAN : syncLoop_GetTokenIDs(ok)
  \/ \E ok \in BOOLEAN : subscribeToMarkets(ok)
  \/ syncLoop_Tick
  \/ syncLoop_Done

\* SpecAdapter: the adapter on a venue that lists no market yet.
NextAdapter ==
  \/ Cancel
  \/ StartStep
  \/ LoopStep({NoMarkets})

SpecAdapter == Init /\ [][NextAdapter]_vars

\* SpecSync: the adapter's reference-data loop on a venue that lists
\* nothing or the catalog, with a store whose upserts can fail; no frame
\* arrives on the stream.
NextSync ==
  \/ Cancel
  \/ Polymarket_Start
  \/ \E ok \in BOOLEAN : Polymarket_Start_Connected(ok)
  \/ Polymarket_Start_Done
  \/ LoopStep({NoMarkets, Catalog})
  \/ \E ok \in BOOLEAN : syncMarkets_Upsert(ok)

SpecSync == Init /\ [][NextSync]_vars

\* SpecSide: the engine fed with updates of valid and invalid sides.
NextSide ==
  \/ \E u \in SideUpdates(Len(sendLog) + 1) : Send(u)
  \/ EngineStep

SpecSide == Init /\ [][NextSide]_vars

\* SpecTokens: the engine fed with updates of two tokens, one of them with
\* a rejected side.
NextTokens ==
  \/ \E u \in TokenUpdates(Len(sendLog) + 1) : Send(u)
  \/ EngineStep

SpecTokens == Init /\ [][NextTokens]_vars

----------------------------------------------------------------------------
(* SpecClob: GetAllMarkets of the two REST clients against a venue         *)

\* The cursors a page can carry on the wire: none ("nil": the field is
\* absent), the empty string, the base64 of "abc", of "def" and of "-1",
\* and two strings that are not base64.
Cursors == {"nil", "", "YWJj", "ZGVm", "LTE=", "!!", "LTE=x"}

\* base64.StdEncoding.DecodeString on these cursors: the bytes decoded and
\* whether an error comes with them. A malformed input yields what was
\* decoded before the corrupt byte: nothing for "!!", "-1" for "LTE=x".
DecodeString(s) ==
  CASE s = "" -> [bytes |-> "", err |-> FALSE]
    [] s = "YWJj" -> [bytes |-> "abc", err |-> FALSE]
    [] s = "ZGVm" -> [bytes |-> "def", err |-> FALSE]
    [] s = "LTE=" -> [bytes |-> "-1", err |-> FALSE]
    [] s = "!!" -> [bytes |-> "", err |-> TRUE]
    [] s = "LTE=x" -> [bytes |-> "-1", err |-> TRUE]

\* What the venue can be: up to MaxPages pages in a row, page i either an
\* HTTP error or the market i with a cursor.
Venues == UNION {[1..n -> Cursors \cup {"error"}] : n \in 1..MaxPages}

\* The page the venue serves for a cursor: the first page without one, the
\* page after the one that handed the cursor out otherwise; 0 if none.
PageFor(venue, cursor) ==
  IF cursor \in {"nil", ""} THEN 1
  ELSE LET issued == {j \in 1..(Len(venue) - 1) : venue[j] = cursor}
       IN  IF issued = {} THEN 0
           ELSE (CHOOSE j \in issued : \A k \in issued : j <= k) + 1

\* GetMarkets(cursor): the page, or an error.
GetMarkets(venue, cursor) ==
  LET i == PageFor(venue, cursor)
  IN  IF i = 0 \/ venue[i] = "error"
        THEN [ok |-> FALSE, page |-> i, data |-> <<>>, cursor |-> "nil"]
        ELSE [ok |-> TRUE, page |-> i, data |-> <<i>>, cursor |-> venue[i]]

Returned(ms, err) == [markets |-> ms, err |-> err]

\* A venue and a client about to call GetAllMarkets; Kalshi's cursor is a
\* string, so an absent one reaches its client as "".
InitClob ==
  /\ client \in {"clob", "kalshi"}
  /\ pages \in Venues
  /\ client = "kalshi" => \A i \in DOMAIN pages : pages[i] # "nil"
  /\ cpc = "first"
  /\ nextCursor = "nil"
  /\ markets = <<>>
  /\ cret = Returned(<<>>, "none")
  /\ requests = <<>>

\* clob.Client.GetAllMarkets up to its loop: the first page is fetched
\* and appended; without a next cursor the markets are returned
clob_GetAllMarkets_First ==
  LET resp == GetMarkets(pages, "nil")
  IN  /\ client = "clob" /\ cpc = "first"
      /\ requests' = Append(requests, [cursor |-> "nil", resp |-> resp])
      /\ IF ~resp.ok
           THEN /\ cpc' = "done" /\ markets' = markets /\ nextCursor' = nextCursor
                /\ cret' = Returned(<<>>, "couldn't get first page of markets")
           ELSE /\ markets' = markets \o resp.data
                /\ nextCursor' = resp.cursor
                /\ IF resp.cursor = "nil"
                     THEN cpc' = "done" /\ cret' = Returned(markets', "none")
                     ELSE cpc' = "loop" /\ cret' = cret
      /\ UNCHANGED <<bookVars, engineVars, writerVars, adapterVars, priceVars, connVars, client, pages>>

\* clob.Client.GetAllMarkets, one turn of its loop: the decode error is
\* dropped (decodedNextCursor, _ :=)
clob_GetAllMarkets_Next ==
  LET resp == GetMarkets(pages, nextCursor)
  IN  /\ client = "clob" /\ cpc = "loop"
      /\ Len(requests) < MaxRequests
      /\ requests' = Append(requests, [cursor |-> nextCursor, resp |-> resp])
      /\ IF ~resp.ok
           THEN /\ cpc' = "done" /\ markets' = markets /\ nextCursor' = nextCursor
                /\ cret' = Returned(<<>>, "couldn't get markets for next cursor")
           ELSE /\ markets' = markets \o resp.data
                /\ IF resp.cursor # "nil"
                     THEN /\ nextCursor' = resp.cursor
                          /\ IF DecodeString(resp.cursor).bytes = "-1"
                               THEN cpc' = "done" /\ cret' = Returned(markets', "none")
                               ELSE cpc' = "loop" /\ cret' = cret
                     ELSE /\ nextCursor' = nextCursor
                          /\ cpc' = "done" /\ cret' = Returned(markets', "none")
      /\ UNCHANGED <<bookVars, engineVars, writerVars, adapterVars, priceVars, connVars, client, pages>>

\* kalshi api Client.GetAllMarkets up to its loop: the first page is
\* fetched and appended, its cursor taken whatever it is
kalshi_GetAllMarkets_First ==
  LET resp == GetMarkets(pages, "")
  IN  /\ client = "kalshi" /\ cpc = "first"
      /\ requests' = Append(requests, [cursor |-> "", resp |-> resp])
      /\ IF ~resp.ok
           THEN /\ cpc' = "done" /\ markets' = markets /\ nextCursor' = nextCursor
                /\ cret' = Returned(<<>>, "couldn't get first page of markets")
           ELSE /\ markets' = markets \o resp.data
                /\ nextCursor' = resp.cursor
                /\ cpc' = "loop" /\ cret' = cret
      /\ UNCHANGED <<bookVars, engineVars, writerVars, adapterVars, priceVars, connVars, client, pages>>

\* kalshi api Client.GetAllMarkets, one turn of its loop
kalshi_GetAllMarkets_Next ==
  LET resp == GetMarkets(pages, nextCursor)
  IN  /\ client = "kalshi" /\ cpc = "loop"
      /\ Len(requests) < MaxRequests
      /\ requests' = Append(requests, [cursor |-> nextCursor, resp |-> resp])
      /\ IF ~resp.ok
           THEN /\ cpc' = "done" /\ markets' = markets /\ nextCursor' = nextCursor
                /\ cret' = Returned(markets, "couldn't get markets for cursor")
           ELSE /\ markets' = markets \o resp.data
                /\ IF resp.cursor # ""
                     THEN /\ nextCursor' = resp.cursor
                          /\ IF DecodeString(resp.cursor).err
                               THEN cpc' = "done"
                                    /\ cret' = Returned(markets', "couldn't decode next cursor")
                               ELSE IF DecodeString(resp.cursor).bytes = "-1"
                               THEN cpc' = "done" /\ cret' = Returned(markets', "none")
                               ELSE cpc' = "loop" /\ cret' = cret
                     ELSE /\ nextCursor' = nextCursor
                          /\ cpc' = "done" /\ cret' = Returned(markets', "none")
      /\ UNCHANGED <<bookVars, engineVars, writerVars, adapterVars, priceVars, connVars, client, pages>>

NextClob ==
  \/ clob_GetAllMarkets_First
  \/ clob_GetAllMarkets_Next
  \/ kalshi_GetAllMarkets_First
  \/ kalshi_GetAllMarkets_Next

InitWithClob ==
  InitBook /\ InitEngine /\ InitNoWriter /\ InitAdapter /\ InitClob /\ InitNoPrice /\ InitConn

SpecClob == InitWithClob /\ [][NextClob]_vars

----------------------------------------------------------------------------
(* SpecPrice: Price.UnmarshalJSON on decimal strings                       *)

\* const PriceScale int64 = 1_000_000
PriceScale == 1000000

\* The digits the short inputs are made of.
PDigits == {"0", "5", "9"}

DigitSeqs(n) == UNION {[1..k -> PDigits] : k \in 0..n}

\* Decimal strings: 1..ni integer digits, then nothing, or a point and
\* 0..nf fractional digits.
Decimals(ni, nf) ==
  {ip \o fp : ip \in DigitSeqs(ni) \ {<<>>},
              fp \in {<<>>} \cup {<<".">> \o f : f \in DigitSeqs(nf)}}

\* Further decimal strings: the documented over-long fraction, and strings
\* with more integer digits, up to and beyond the largest value a Price can
\* hold.
LongDecimals ==
  {<<"0", ".", "1", "2", "3", "4", "5", "6", "7">>,
   <<"1", "0">>,
   <<"1", "2", ".", "5">>,
   <<"1", "0", "0", ".", "0", "0", "0", "0", "0", "1">>,
   <<"9", "9", "9", "9", "9", "9", "9", "9", "9", "9", "9", "9", ".", "9", "9", "9", "9", "9", "9">>,
   <<"9", "2", "2", "3", "3", "7", "2", "0", "3", "6", "8", "5", "4", ".", "7", "7", "5", "8", "0", "7">>,
   <<"9", "2", "2", "3", "3", "7", "2", "0", "3", "6", "8", "5", "4", ".", "7", "7", "5", "8", "0", "8">>,
   <<"9", "2", "2", "3", "3", "7", "2", "0", "3", "6", "8", "5", "5">>}

Quoted(d) == <<"\"">> \o d \o <<"\"">>

\* The bytes handed to UnmarshalJSON: a JSON number, or a JSON string.
Inputs(ni, nf) ==
  LET ds == Decimals(ni, nf) \cup LongDecimals
  IN  ds \cup {Quoted(d) : d \in ds}

\* int64 as four 16-bit limbs, least significant first (two's complement).
Limb == 65536

Int64Zero == <<0, 0, 0, 0>>

\* v * m + a in int64 arithmetic (wrapping at 2^64), for 0 <= m <= 10 and
\* 0 <= a < 2^31.
MulAdd(v, m, a) ==
  LET t1 == v[1] * m + a
      t2 == v[2] * m + (t1 \div Limb)
      t3 == v[3] * m + (t2 \div Limb)
      t4 == v[4] * m + (t3 \div Limb)
  IN  <<t1 % Limb, t2 % Limb, t3 % Limb, t4 % Limb>>

\* The sign bit of an int64.
Negative(v) == v[4] >= 32768

\* data[i] - '0' for the bytes of a decimal string.
DigitOf(c) ==
  CASE c = "0" -> 0 [] c = "1" -> 1 [] c = "2" -> 2 [] c = "3" -> 3 [] c = "4" -> 4
    [] c = "5" -> 5 [] c = "6" -> 6 [] c = "7" -> 7 [] c = "8" -> 8 [] c = "9" -> 9

\* if len(data) > 2 && data[0] == '"' && data[len(data)-1] == '"'
StripQuotes(d) ==
  IF Len(d) > 2 /\ d[1] = "\"" /\ d[Len(d)] = "\"" THEN SubSeq(d, 2, Len(d) - 1) ELSE d

RECURSIVE IntegerLoop(_, _, _)
\* for i < len(data) && data[i] != '.': res = res*10 + digit*PriceScale
IntegerLoop(d, i, res) ==
  IF i <= Len(d) /\ d[i] # "."
    THEN IntegerLoop(d, i + 1, MulAdd(res, 10, DigitOf(d[i]) * PriceScale))
    ELSE [i |-> i, res |-> res]

RECURSIVE FractionLoopScalesLate(_, _, _, _)
\* Faulty variant: the digit is scaled before mult is divided.
FractionLoopScalesLate(d, i, mult, res) ==
  IF i <= Len(d)
    THEN FractionLoopScalesLate(d, i + 1, mult \div 10, MulAdd(res, 1, DigitOf(d[i]) * mult))
    ELSE res

RECURSIVE FractionLoopKeepsUnit(_, _, _, _)
\* Faulty variant: mult never falls below 1, so late digits still count.
FractionLoopKeepsUnit(d, i, mult, res) ==
  LET m == IF mult \div 10 = 0 THEN 1 ELSE mult \div 10
  IN  IF i <= Len(d)
        THEN FractionLoopKeepsUnit(d, i + 1, m, MulAdd(res, 1, DigitOf(d[i]) * m))
        ELSE res

RECURSIVE FractionLoop(_, _, _, _)
\* for i < len(data): mult /= 10; res += digit * mult
FractionLoop(d, i, mult, res) ==
  IF i <= Len(d)
    THEN FractionLoop(d, i + 1, mult \div 10, MulAdd(res, 1, DigitOf(d[i]) * (mult \div 10)))
    ELSE res

\* Price.UnmarshalJSON: the value stored in *p and the error returned.
UnmarshalJSON(bytes) ==
  LET d == StripQuotes(bytes)
      int == IntegerLoop(d, 1, Int64Zero)
      res == IF int.i <= Len(d) /\ d[int.i] = "."
               THEN FractionLoop(d, int.i + 1, PriceScale, int.res)
               ELSE int.res
  IN  [p |-> res, err |-> "none", done |-> TRUE]

\* A decoder about to be handed one input.
InitPrice ==
  /\ data \in Inputs(MaxIntDigits, MaxFracDigits)
  /\ pres = [p |-> Int64Zero, err |-> "none", done |-> FALSE]

\* json.Unmarshal calls p.UnmarshalJSON(data)
Price_UnmarshalJSON ==
  /\ ~pres.done
  /\ pres' = UnmarshalJSON(data)
  /\ UNCHANGED <<bookVars, engineVars, writerVars, adapterVars, clobVars, connVars, data>>

NextPrice == Price_UnmarshalJSON

InitWithPrice ==
  InitBook /\ InitEngine /\ InitNoWriter /\ InitAdapter /\ InitNoClob /\ InitPrice /\ InitConn

SpecPrice == InitWithPrice /\ [][NextPrice]_vars

----------------------------------------------------------------------------
(* SpecConn: Polymarket.Start and Stop over the websocket client           *)

\* What the background reader puts on resultCh: result{RawMessage, Error}.
Result(raw, err) == [RawMessage |-> raw, Error |-> err]

\* What conn.ReadMessage can hand the reader: a frame that parses, a frame
\* that does not, or a read error; only the error once the connection is
\* closed or its read deadline has passed.
ReadOutcomes(c, d) ==
  IF c = "open" /\ d = "none"
    THEN {Result("book", "none"), Result("garbage", "none"), Result("", "read error")}
    ELSE {Result("", "read error")}

\* The error ReadMessage returns for a received result.
ErrorOf(res) ==
  IF res.Error # "none" THEN "couldn't read message"
  ELSE IF res.RawMessage = "garbage" THEN "couldn't parse message"
  ELSE "none"

\* A Stop call has panicked: the process is gone.
Panicked == \E i \in DOMAIN wsc.stopLog : wsc.stopLog[i] = "panic"

\* Start: websocket.New dials; on success the client is built with an open
\* stopPing, pingLoop is spawned and p.ws is set; on failure Start returns.
websocket_New(ok) ==
  /\ ~Panicked
  /\ wsc.start = "idle"
  /\ wsc' = IF ok
              THEN [wsc EXCEPT !.start = "running", !.ws = "set", !.conn = "open",
                               !.stopPing = "open", !.ppc = "select"]
              ELSE [wsc EXCEPT !.start = "returned"]
  /\ UNCHANGED <<bookVars, engineVars, writerVars, adapterVars, clobVars, priceVars, rd>>

\* Start, case <-ctx.Done(): return ctx.Err()
Conn_Start_Done ==
  /\ ~Panicked
  /\ wsc.start = "running" /\ rd.call = 0
  /\ ctxDone
  /\ wsc' = [wsc EXCEPT !.start = "returned"]
  /\ UNCHANGED <<bookVars, engineVars, writerVars, adapterVars, clobVars, priceVars, rd>>

\* Start, default: ReadMessage is called; it makes resultCh with one slot
\* and spawns the reader, which enters conn.ReadMessage.
ReadMessage_Call ==
  /\ ~Panicked
  /\ wsc.start = "running" /\ rd.call = 0
  /\ ~ctxDone
  /\ Len(rd.chans) < MaxCalls
  /\ rd' = [rd EXCEPT !.call = Len(rd.chans) + 1,
                      !.chans = Append(@, <<>>),
                      !.readers = Append(@, [pc |-> "read", res |-> Result("", "none")])]
  /\ UNCHANGED <<bookVars, engineVars, writerVars, adapterVars, clobVars, priceVars, wsc>>

\* the reader of call k: conn.ReadMessage returns
reader_ReadMessage(k, res) ==
  /\ ~Panicked
  /\ k \in DOMAIN rd.readers
  /\ rd.readers[k].pc = "read"
  /\ res \in ReadOutcomes(wsc.conn, rd.deadline)
  /\ rd' = [rd EXCEPT !.readers[k] = [pc |-> "send", res |-> res]]
  /\ UNCHANGED <<bookVars, engineVars, writerVars, adapterVars, clobVars, priceVars, wsc>>

\* Faulty variant: resultCh has no buffer, so the send needs the receiver
\* to be waiting in the select of the same call.
reader_SendUnbuffered(k) ==
  /\ ~Panicked
  /\ k \in DOMAIN rd.readers
  /\ rd.readers[k].pc = "send"
  /\ rd.call = k /\ rd.chans[k] = <<>>
  /\ rd' = [rd EXCEPT !.chans[k] = <<rd.readers[k].res>>,
                      !.readers[k].pc = "exit"]
  /\ UNCHANGED <<bookVars, engineVars, writerVars, adapterVars, clobVars, priceVars, wsc>>

\* the reader of call k: resultCh <- result{...}, which needs a free slot
\* in the channel's buffer of one; then the goroutine ends
reader_Send(k) ==
  /\ ~Panicked
  /\ k \in DOMAIN rd.readers
  /\ rd.readers[k].pc = "send"
  /\ Len(rd.chans[k]) < 1
  /\ rd' = [rd EXCEPT !.chans[k] = Append(@, rd.readers[k].res),
                      !.readers[k].pc = "exit"]
  /\ UNCHANGED <<bookVars, engineVars, writerVars, adapterVars, clobVars, priceVars, wsc>>

\* ReadMessage, case result := <-resultCh, and the return into Start, which
\* returns on an error and loops otherwise
ReadMessage_Recv ==
  LET k == rd.call
      err == ErrorOf(Head(rd.chans[k]))
  IN  /\ ~Panicked
      /\ k # 0
      /\ rd.chans[k] # <<>>
      /\ rd' = [rd EXCEPT !.call = 0, !.chans[k] = Tail(@),
                          !.returns = Append(@, err)]
      /\ wsc' = IF err = "none" THEN wsc ELSE [wsc EXCEPT !.start = "returned"]
      /\ UNCHANGED <<bookVars, engineVars, writerVars, adapterVars, clobVars, priceVars>>

\* ReadMessage, case <-ctx.Done(): c.conn.SetReadDeadline(time.Now()), the
\* cancellation is returned and Start returns it
ReadMessage_Cancelled ==
  /\ ~Panicked
  /\ rd.call # 0
  /\ ctxDone
  /\ rd' = [rd EXCEPT !.call = 0, !.deadline = "now",
                      !.returns = Append(@, "reading message")]
  /\ wsc' = [wsc EXCEPT !.start = "returned"]
  /\ UNCHANGED <<bookVars, engineVars, writerVars, adapterVars, clobVars, priceVars>>

\* pingLoop, case <-ticker.C: WriteControl(PingMessage); a failed write
\* ends the loop.  The select may take this case while stopPing is closed.
pingLoop_Tick ==
  /\ ~Panicked
  /\ wsc.ppc = "select"
  /\ Len(wsc.pings) < MaxPings
  /\ wsc' = IF wsc.conn = "open"
              THEN [wsc EXCEPT !.pings = Append(@, [sent |-> TRUE,
                                                    stopped |-> wsc.stopPing = "closed"])]
              ELSE [wsc EXCEPT !.pings = Append(@, [sent |-> FALSE,
                                                    stopped |-> wsc.stopPing = "closed"]),
                               !.ppc = "done"]
  /\ UNCHANGED <<bookVars, engineVars, writerVars, adapterVars, clobVars, priceVars, rd>>

\* pingLoop, case <-c.stopPing: return
pingLoop_Stopped ==
  /\ ~Panicked
  /\ wsc.ppc = "select"
  /\ wsc.stopPing = "closed"
  /\ wsc' = [wsc EXCEPT !.ppc = "done"]
  /\ UNCHANGED <<bookVars, engineVars, writerVars, adapterVars, clobVars, priceVars, rd>>

\* Polymarket.Stop: nil when p.ws is nil; otherwise Client.Close:
\* close(c.stopPing), which panics on a closed channel, the close message,
\* conn.Close().
Polymarket_Stop ==
  /\ ~Panicked
  /\ Len(wsc.stopLog) < MaxStops
  /\ wsc' = IF wsc.ws = "nil" THEN [wsc EXCEPT !.stopLog = Append(@, "nil")]
            ELSE IF wsc.stopPing = "closed" THEN [wsc EXCEPT !.stopLog = Append(@, "panic")]
            ELSE [wsc EXCEPT !.stopPing = "closed", !.conn = "closed",
                             !.stopLog = Append(@, "closed")]
  /\ UNCHANGED <<bookVars, engineVars, writerVars, adapterVars, clobVars, priceVars, rd>>

\* the owner of the context cancels it
Conn_Cancel == ~Panicked /\ Cancel

NextConn ==
  \/ Conn_Cancel
  \/ \E ok \in BOOLEAN : websocket_New(ok)
  \/ Conn_Start_Done
  \/ ReadMessage_Call
  \/ \E k \in 1..MaxCalls, res \in ReadOutcomes("open", "none") : reader_ReadMessage(k, res)
  \/ \E k \in 1..MaxCalls : reader_Send(k)
  \/ ReadMessage_Recv
  \/ ReadMessage_Cancelled
  \/ pingLoop_Tick
  \/ pingLoop_Stopped
  \/ Polymarket_Stop

SpecConn == Init /\ [][NextConn]_vars

----------------------------------------------------------------------------
(* Properties of the order book (SpecBook)                                 *)

\* The levels of a side at price p / at the other prices, in stored order.
AtPrice(tree, p) == SelectSeq(tree, LAMBDA l : l.Price = p)

NotAtPrice(tree, p) == SelectSeq(tree, LAMBDA l : l.Price # p)

Min(a, b) == IF a < b THEN a ELSE b

\* C1: after every sequence of Set and Update operations the bids are listed
\* in strictly decreasing price order, the asks in strictly increasing price
\* order, and every stored level has a size > 0.
C1_BookSortedAndPositive ==
  /\ \A i \in 1..(Len(ob.bids) - 1) : ob.bids[i].Price > ob.bids[i + 1].Price
  /\ \A i \in 1..(Len(ob.asks) - 1) : ob.asks[i].Price < ob.asks[i + 1].Price
  /\ \A i \in DOMAIN ob.bids : ob.bids[i].Size > 0
  /\ \A i \in DOMAIN ob.asks : ob.asks[i].Size > 0

\* Both sides hold two levels and the last operation overwrote a level that
\* was already stored.
C1_Witness ==
  /\ Len(ob.bids) = 2 /\ Len(ob.asks) = 2
  /\ last.op \in {"Set", "Update"} /\ ~last.err /\ last.size > 0
  /\ Len(AtPrice(last.pre[last.side], last.p)) = 1

\* C8: Set(price, size, side, t) with size <= 0 leaves no level at that
\* price; with size > 0 it leaves exactly one level at that price, carrying
\* that size and updated_at = t; the levels at the other prices of that side
\* are unchanged.
C8_SetPostcondition ==
  (last.op = "Set" /\ ~last.err) =>
    /\ IF last.size <= 0
         THEN AtPrice(ob[last.side], last.p) = <<>>
         ELSE AtPrice(ob[last.side], last.p) = <<Level(last.p, last.size, last.t)>>
    /\ NotAtPrice(ob[last.side], last.p) = NotAtPrice(last.pre[last.side], last.p)

\* A Set with a positive size replaced a stored level of another size and
\* timestamp, next to a level at another price.
C8_Witness ==
  /\ last.op = "Set" /\ ~last.err /\ last.size > 0
  /\ Len(AtPrice(last.pre[last.side], last.p)) = 1
  /\ AtPrice(last.pre[last.side], last.p)[1].Size # last.size
  /\ AtPrice(last.pre[last.side], last.p)[1].UpdatedAt # last.t
  /\ Len(NotAtPrice(last.pre[last.side], last.p)) = 1

\* The size stored at price p on a side, 0 when there is no level.
SizeAt(tree, p) == IF AtPrice(tree, p) = <<>> THEN 0 ELSE AtPrice(tree, p)[1].Size

\* C9: Update(price, delta, side, t) computes (existing size or 0) + delta;
\* a result <= 0 leaves no level at that price, a result > 0 leaves exactly
\* one level there with the new size and updated_at = t; the levels at the
\* other prices are unchanged.
C9_UpdatePostcondition ==
  (last.op = "Update" /\ ~last.err) =>
    LET newSize == SizeAt(last.pre[last.side], last.p) + last.size
    IN  /\ IF newSize <= 0
             THEN AtPrice(ob[last.side], last.p) = <<>>
             ELSE AtPrice(ob[last.side], last.p) = <<Level(last.p, newSize, last.t)>>
        /\ NotAtPrice(ob[last.side], last.p) = NotAtPrice(last.pre[last.side], last.p)

\* An Update added a positive delta to a stored level, next to a level at
\* another price.
C9_Witness ==
  /\ last.op = "Update" /\ ~last.err /\ last.size > 0
  /\ SizeAt(last.pre[last.side], last.p) > 0
  /\ AtPrice(last.pre[last.side], last.p)[1].UpdatedAt # last.t
  /\ SizeAt(ob[last.side], last.p) = SizeAt(last.pre[last.side], last.p) + last.size
  /\ Len(NotAtPrice(last.pre[last.side], last.p)) = 1

\* C10: GetTopN(side, n), n >= 0, returns exactly min(n, Len(side)) levels,
\* the best-priced ones in best-first order, and does not modify the book.
C10_GetTopNReturnsMinLevels ==
  (last.op = "GetTopN" /\ ~last.err) =>
    /\ Len(last.levels) = Min(last.n, Len(last.pre[last.side]))
    /\ last.levels = SubSeq(last.pre[last.side], 1, Min(last.n, Len(last.pre[last.side])))
    /\ ob = last.pre


----------------------------------------------------------------------------
(* Properties of the engine (Spec, SpecSnap)                               *)

\* The updates passed to Send for a token, in call order.
SentTo(tok) ==
  SelectSeq([i \in 1..Len(sendLog) |-> sendLog[i].u], LAMBDA u : u.TokenID = tok)

\* Those of them that no queue refused: Send returned true and the router
\* did not find the worker's queue full.
KeptFor(tok) ==
  SelectSeq(SentTo(tok), LAMBDA u : sendLog[u.id].ok /\ u.id \notin dropped)

IsPrefix(a, b) == Len(a) <= Len(b) /\ a = SubSeq(b, 1, Len(a))

RECURSIVE IsSubseq(_, _)
IsSubseq(a, b) ==
  IF a = <<>> THEN TRUE
  ELSE IF b = <<>> THEN FALSE
  ELSE IF Head(a) = Head(b) THEN IsSubseq(Tail(a), Tail(b))
  ELSE IsSubseq(a, Tail(b))

\* C2 as stated: for every token the updates applied to its book are a
\* prefix of the updates passed to Send for it, i.e. drops only come from
\* the tail.
C2_AppliedIsPrefixOfSent ==
  \A tok \in Tokens : IsPrefix(applied[tok], SentTo(tok))

\* C2 amended: for every token the updates applied to its book are, in send
\* order and unchanged, a prefix of the updates for it that no queue
\* refused; so they are a subsequence of the updates passed to Send, never
\* re-ordered, with the refused ones missing wherever the overflow fell.
C2_AppliedIsPrefixOfKept ==
  \A tok \in Tokens :
    /\ IsPrefix(applied[tok], KeptFor(tok))
    /\ IsSubseq(applied[tok], SentTo(tok))

\* Three updates of one token were applied although an update sent between
\* them was refused by the full inbound queue.
C2_Witness ==
  \E tok \in Tokens :
    /\ Len(applied[tok]) >= 3
    /\ \E i \in 1..Len(sendLog) :
         /\ ~sendLog[i].ok /\ sendLog[i].u.TokenID = tok
         /\ applied[tok][1].id < i /\ i < applied[tok][Len(applied[tok])].id

\* For every token at most one worker (and book) has been created and
\* spawned, and the map holds exactly that worker.
C3_OneWorkerPerToken ==
  \A tok \in Tokens :
    /\ spawned[tok] <= 1
    /\ orderbookWorkers[tok] = spawned[tok]
    /\ (wpc[tok] = "none") <=> (spawned[tok] = 0)

\* A step leaves every existing map entry as it is.
C3_EntryNeverReplaced ==
  \A tok \in Tokens : orderbookWorkers[tok] # 0 => orderbookWorkers'[tok] = orderbookWorkers[tok]

\* C3: under every interleaving of Send calls, router steps, worker steps
\* and TakeSnapshots calls, exactly one worker is created and spawned per
\* token, and an existing map entry is never replaced.
C3_OneWorkerPerTokenEver ==
  [](C3_OneWorkerPerToken) /\ [][C3_EntryNeverReplaced]_vars

\* Ids of the updates the router has dispatched for a token.
Dispatched(tok) ==
  {i \in forwarded \cup dropped : sendLog[i].u.TokenID = tok}

\* The router has dispatched two updates of token A and one of token B, a
\* TakeSnapshots call is scanning the map, and each token has one worker.
C3_Witness ==
  /\ Cardinality(Dispatched("A")) >= 2
  /\ Cardinality(Dispatched("B")) >= 1
  /\ spc # "idle"
  /\ spawned["A"] = 1 /\ spawned["B"] = 1

\* A GetTopN of TakeSnapshots on the book of tok completes in this step.
SnapshotReadStep(tok) ==
  \/ spc = "range" /\ spc' = "asks" /\ stok' = tok
  \/ spc = "asks" /\ spc' = "range" /\ stok = tok

\* C4: a GetTopN of TakeSnapshots never runs while the worker of the same
\* book is inside Set/Update.
C4_SnapshotReadNeverOverlapsMutation ==
  [][\A tok \in Tokens : SnapshotReadStep(tok) => wpc[tok] # "apply"]_vars

\* What a step that is a Send call does to the inbound queue.
C5_SendStep ==
  Len(sendLog') = Len(sendLog) + 1 =>
    LET e == sendLog'[Len(sendLog')]
    IN  IF Len(updates) < maximumUpdates
          THEN e.ok /\ updates' = Append(updates, e.u)
          ELSE ~e.ok /\ updates' = updates

\* C5: Send never blocks; with a free slot it returns true and the update
\* is appended at the tail of the inbound queue, otherwise it returns false
\* and the queue is unchanged.
C5_SendNeverBlocksDropsNewest ==
  /\ [][C5_SendStep]_vars
  /\ [](Len(sendLog) < MaxSends =>
          ENABLED (\E u \in EngineUpdates(Len(sendLog) + 1) : Send(u)))

\* A Send was refused on a full inbound queue, which still holds the
\* updates accepted before it, in their order.
C5_Witness ==
  /\ Len(sendLog) = maximumUpdates + 1
  /\ ~sendLog[Len(sendLog)].ok
  /\ updates = [i \in 1..maximumUpdates |-> sendLog[i].u]

\* What the router's dispatch does when the worker's queue is full.
C6_DropStep ==
  (rpc = "forward" /\ rpc' # "forward" /\ Len(wq[rcur.TokenID]) >= maximumUpdates) =>
    /\ wq' = wq
    /\ dropped' = dropped \cup {rcur.id}
    /\ rpc' = "select"

\* C6: the router is never blocked by a worker queue: in its dispatch
\* position the forwarding step can always be taken, and on a full worker
\* queue that step drops the update in hand, leaves every worker queue as
\* it is and returns the router to its select.
C6_RouterNeverBlockedByWorker ==
  /\ [](rpc = "forward" => ENABLED Start_Forward)
  /\ [][C6_DropStep]_vars

\* The worker of token A never took an update and its queue is full, the
\* router dropped an update of A for that reason, and afterwards it
\* forwarded an update of token B.
C6_Witness ==
  /\ applied["A"] = <<>> /\ wpc["A"] = "select"
  /\ Len(wq["A"]) = maximumUpdates
  /\ \E i \in dropped, j \in forwarded :
       /\ sendLog[i].u.TokenID = "A" /\ sendLog[j].u.TokenID = "B"
       /\ i < j

\* Ids of the updates still in the pipeline or already applied.
InPipeline ==
  {updates[i].id : i \in DOMAIN updates}
    \cup {rcur.id}
    \cup UNION {{wq[t][i].id : i \in DOMAIN wq[t]} : t \in Tokens}
    \cup {wcur[t].u.id : t \in Tokens}
    \cup UNION {{applied[t][i].id : i \in DOMAIN applied[t]} : t \in Tokens}
    \cup forwarded \cup dropped

Accepted == {i \in 1..Len(sendLog) : sendLog[i].ok}

\* The router has not taken any update off the inbound queue yet.
RouterNotYetConsuming == rcur = NoUpdate /\ forwarded = {} /\ dropped = {}

\* C7: while the router has not consumed anything, of n consecutive Send
\* calls exactly the first maximumUpdates are accepted and the others are
\* rejected; a rejected update never enters the pipeline; none of the
\* first maximumUpdates accepted updates is dropped at a worker queue; and
\* whenever the router has emptied the inbound queue, every accepted update
\* has been dispatched.
C7_Backpressure ==
  /\ RouterNotYetConsuming =>
       \A i \in 1..Len(sendLog) : sendLog[i].ok <=> (i <= maximumUpdates)
  /\ \A i \in 1..Len(sendLog) : ~sendLog[i].ok => i \notin InPipeline
  /\ \A i \in 1..Min(maximumUpdates, Len(sendLog)) : i \notin dropped
  /\ (updates = <<>> /\ rcur = NoUpdate) => Accepted = forwarded \cup dropped

\* maximumUpdates + 1 Send calls were made before the router consumed
\* anything; afterwards the accepted ones reached a worker and a later Send
\* was accepted and applied.
C7_Witness ==
  /\ Len(sendLog) = maximumUpdates + 2
  /\ \A i \in 1..maximumUpdates : sendLog[i].ok /\ i \in forwarded
  /\ ~sendLog[maximumUpdates + 1].ok
  /\ sendLog[maximumUpdates + 2].ok
  /\ \E t \in Tokens : \E k \in DOMAIN applied[t] : applied[t][k].id = maximumUpdates + 2

----------------------------------------------------------------------------
(* Invalid sides (SpecSide)                                                *)

\* The book that applying the updates of seq in order to an empty book
\* gives, a zero event time standing for the worker's clock reading.
RECURSIVE Replay(_, _)
Replay(b, seq) ==
  IF seq = <<>> THEN b
  ELSE LET u == Head(seq)
           t == IF u.EventTime = 0 THEN CHOOSE now \in NowTimes : TRUE ELSE u.EventTime
           r == IF u.IsDelta THEN Update(b, u.Price, u.Size, u.Side, t)
                ELSE Set(b, u.Price, u.Size, u.Side, t)
       IN  Replay(r.ob, Tail(seq))

ValidOnly(seq) == SelectSeq(seq, LAMBDA u : u.Side \in ValidSides)

\* On every book a worker holds, each operation with a rejected side
\* returns the error and the book as it was.
C11_InvalidSideFails ==
  \A tok \in Tokens, side \in Sides \ ValidSides :
    /\ \A p \in Prices, size \in Sizes, t \in Times :
         /\ Set(books[tok], p, size, side, t) = [ob |-> books[tok], err |-> TRUE]
         /\ Update(books[tok], p, size, side, t) = [ob |-> books[tok], err |-> TRUE]
    /\ \A n \in 0..MaxN : GetTopN(books[tok], side, n) = [levels |-> <<>>, err |-> TRUE]
    /\ OrderbookLen(books[tok], side) = 0

\* Every book is what the valid-side updates applied to it give: the
\* others left no trace.
C11_InvalidSideLeavesNoTrace ==
  \A tok \in Tokens : books[tok] = Replay(New, ValidOnly(applied[tok]))

\* The worker's step that completes Set/Update on an update with a
\* rejected side.
C11_DropStep ==
  \A tok \in Tokens :
    (wpc[tok] = "apply" /\ wpc'[tok] # "apply" /\ wcur[tok].u.Side \notin ValidSides) =>
      /\ books'[tok] = books[tok]
      /\ wpc'[tok] = "select"
      /\ wq'[tok] = wq[tok]

\* C11: an operation with a side other than the bid or the ask side fails
\* with the invalid-side error and changes neither side of the book; an
\* update with such a side that reaches a token worker changes nothing in
\* the book, and the worker is back at its select, where the following
\* valid updates are applied.
C11_InvalidSideDropped ==
  /\ [](C11_InvalidSideFails /\ C11_InvalidSideLeavesNoTrace)
  /\ [][C11_DropStep]_vars

\* A worker applied a bid, then took an update with a rejected side, then
\* applied an ask: its book holds the bid and the ask.
C11_Witness ==
  \E tok \in Tokens : \E k \in 2..(Len(applied[tok]) - 1) :
    /\ applied[tok][k - 1].Side = "bids"
    /\ applied[tok][k].Side \notin ValidSides
    /\ applied[tok][k + 1].Side = "asks"
    /\ Len(books[tok].bids) = 1 /\ Len(books[tok].asks) = 1
    /\ wpc[tok] = "select"

----------------------------------------------------------------------------
(* Properties of the snapshot writer (SpecWriter)                          *)

\* The books a token's book has been so far, the one its worker's call in
\* progress is producing included.
BookHistory(tok) ==
  {Replay(New, SubSeq(applied[tok], 1, j)) : j \in 0..Len(applied[tok])}
    \cup (IF wpc[tok] = "apply" THEN {BookAfter(tok)} ELSE {})

\* top_n(side, n) of a tree: its min(n, Len) best levels, best first.
TopN(tree, n) == SubSeq(tree, 1, Min(n, Len(tree)))

\* rows holds, with indices 0..N-1, the prices and sizes of levels.
RowsAreLevels(rows, levels) ==
  /\ Len(rows) = Len(levels)
  /\ \A i \in DOMAIN rows :
       /\ rows[i].Level = i - 1
       /\ rows[i].Price = levels[i].Price
       /\ rows[i].Size = levels[i].Size

\* C12: at most one batch goes to the store per tick, and in the batch
\* about to be inserted the rows of every snapshotted token and each side,
\* labelled "bid"/"ask", are the levels of top_n(side, depth) of a book
\* that token had, best first, with indices 0..N-1 and N <= depth.
C12_BatchReconstructsTopN ==
  /\ Len(storeLog) + (IF swpc = "insert" THEN 1 ELSE 0) <= ticks
  /\ swpc = "insert" =>
       /\ \A i \in DOMAIN params :
            /\ params[i].Side \in {"bid", "ask"}
            /\ \E k \in DOMAIN swsnaps : swsnaps[k].TokenID = params[i].TokenID
       /\ \A k \in DOMAIN swsnaps : \A side \in ValidSides :
            LET tok == swsnaps[k].TokenID
                label == IF side = "bids" THEN "bid" ELSE "ask"
                rows == SelectSeq(params, LAMBDA r : r.TokenID = tok /\ r.Side = label)
            IN  /\ Len(rows) <= swdepth
                /\ \E b \in BookHistory(tok) : RowsAreLevels(rows, TopN(b[side], swdepth))

\* C13: with depth 0 the store's batch insert is never called, and every
\* row handed to the store has a level index in 0..depth-1.
C13_DepthZeroWritesNothing ==
  /\ swdepth = 0 => (storeLog = <<>> /\ swpc # "insert")
  /\ \A k \in DOMAIN storeLog : \A i \in DOMAIN storeLog[k].rows :
       storeLog[k].rows[i].Level \in 0..(swdepth - 1)

\* Every batch the store was or is about to be given is non-empty and is
\* built from the snapshots taken in the same tick and from nothing else.
C14_BatchIsFresh ==
  /\ \A k \in DOMAIN storeLog :
       /\ storeLog[k].rows # <<>>
       /\ \E now \in NowTimes : storeLog[k].rows = BuildParams(storeLog[k].snaps, now)
  /\ swpc = "insert" =>
       /\ params # <<>>
       /\ \E now \in NowTimes : params = BuildParams(swsnaps, now)
  /\ swpc \in {"select", "take", "done"} => (params = <<>> /\ swsnaps = <<>>)

\* The step in which the store's insert returns, and the step in which
\* TakeSnapshots returns to writeSnapshots.
C14_WriterStep ==
  /\ (swpc = "insert" /\ swpc' # "insert") =>
       /\ swpc' = "select"
       /\ Len(storeLog') = Len(storeLog) + 1
       /\ params' = <<>> /\ swsnaps' = <<>>
  /\ (swpc = "take" /\ swpc' # "take") =>
       /\ swsnaps' \in {snapshots, <<>>}
       /\ (swpc' = "select") <=> (\E now \in NowTimes : BuildParams(snapshots, now) = <<>>)
       /\ storeLog' = storeLog

\* C14: after a failed insert the writer is back at its select with
\* nothing retained; every batch is built only from the snapshots taken in
\* its own tick; a tick that yields no rows makes no store call.
C14_FailedBatchNotRetained ==
  /\ [](C14_BatchIsFresh)
  /\ [][C14_WriterStep]_vars

\* The first tick's insert of a bid row of token A failed; the second tick
\* found another best bid and its batch, without the failed row, is about
\* to be inserted.
C14_Witness ==
  /\ Len(storeLog) = 1 /\ ~storeLog[1].ok
  /\ swpc = "insert" /\ ticks = 2
  /\ \E i \in DOMAIN storeLog[1].rows : \A j \in DOMAIN params : params[j] # storeLog[1].rows[i]

\* Two ticks returned without a store call although a worker exists: its
\* book is empty, so the snapshots yield no rows.
C14_EmptyTicks ==
  /\ ticks = 2 /\ swpc = "select" /\ storeLog = <<>>
  /\ \E tok \in Tokens : spawned[tok] = 1 /\ applied[tok] # <<>> /\ books[tok] = New

----------------------------------------------------------------------------
(* Cancellation (Spec, SpecWriterFair)                                     *)

\* C15, the update a loop already has in hand aside: once the context is
\* cancelled, the router at its select takes no further update off the
\* inbound queue and no worker at its select takes a further update off its
\* queue, so nothing further is forwarded or applied.
C15_CancellationWins ==
  [][ctxDone =>
       /\ (rpc = "select" => rpc' # "rlock")
       /\ \A tok \in Tokens : (wpc[tok] = "select" => wpc'[tok] # "apply")]_vars

AllLoopsReturned ==
  /\ rpc = "done"
  /\ swpc = "done"
  /\ \A tok \in Tokens : wpc[tok] \in {"none", "done"}

\* C16: once the context is cancelled, the router loop, every worker loop
\* that was spawned and the snapshot writer loop eventually have all
\* returned, whatever is queued.
C16_AllLoopsEventuallyReturn == ctxDone ~> AllLoopsReturned

\* Every loop has returned, a worker among them, while updates are left in
\* the inbound queue and in a worker's queue.
C16_Witness ==
  /\ ctxDone /\ AllLoopsReturned
  /\ updates # <<>>
  /\ \E tok \in Tokens : wpc[tok] = "done" /\ wq[tok] # <<>>

----------------------------------------------------------------------------
(* Properties of the Polymarket adapter (SpecAdapter)                      *)

SyncCalls == {"syncMarkets", "upsert", "GetTokenIDs", "subscribe"}

\* C17: once the reference-data loop has observed the cancellation (it
\* took its <-ctx.Done() case), it starts no further catalog sync, token
\* lookup or subscribe.
C17_SyncLoopStopsOnCancel ==
  [][lstopped => (lpc' \in SyncCalls => lpc \in SyncCalls)]_vars

\* The positions of Start: IDLE, CONNECTING, RUNNING (at the select or
\* inside a read), STOPPED; and the moves between them.
C18_StartMoves ==
  <<apc, apc'>> \in
    {<<"idle", "connecting">>, <<"connecting", "select">>, <<"connecting", "stopped">>,
     <<"select", "reading">>, <<"select", "stopped">>,
     <<"reading", "select">>, <<"reading", "stopped">>}
    \cup {<<x, x>> : x \in {"idle", "connecting", "select", "reading", "stopped"}}

C18_StartOrder ==
  /\ apc \in {"idle", "connecting"} => (lpc = "none" /\ readLog = <<>> /\ aret = "none")
  /\ aret = "websocket connect" => (apc = "stopped" /\ lpc = "none" /\ readLog = <<>>)
  /\ apc \in {"select", "reading"} => lpc # "none"
  /\ readLog # <<>> => lpc # "none"
  /\ (apc = "stopped") <=> (aret # "none")
  /\ aret \in {"none", "websocket connect", "context canceled", "reading message",
               "couldn't read message", "couldn't parse message"}
  /\ aret \in {"context canceled", "reading message"} => ctxDone

C18_ConnectFailed ==
  /\ apc = "stopped" /\ aret = "websocket connect" /\ lpc = "none"

C19_FirstErrorIsLast ==
  \A i \in DOMAIN readLog :
    readLog[i].err # "none" =>
      /\ i = Len(readLog)
      /\ apc = "stopped"
      /\ aret = readLog[i].err

\* C19: the first read that fails is the last read: Start has returned,
\* its return value is that read's error, and once returned Start neither
\* reads nor connects again.
C19_FirstReadErrorReturned ==
  /\ [](C19_FirstErrorIsLast)
  /\ [][apc = "stopped" => (apc' = apc /\ aret' = aret /\ readLog' = readLog)]_vars

\* Two messages were read, the third read failed on the connection, and
\* Start returned that error.
C19_Witness ==
  /\ Len(readLog) = 3
  /\ readLog[1].err = "none" /\ readLog[2].err = "none"
  /\ ~readLog[3].frame.connOK /\ readLog[3].err = "couldn't read message"
  /\ apc = "stopped" /\ aret = "couldn't read message"

\* A frame that arrived intact but is malformed JSON or carries an event
\* type outside the known ones.
ProtocolError(f) == f.connOK /\ (~f.jsonOK \/ f.eventType \notin KnownEvents)

\* C20: a frame with malformed JSON or an unknown event_type does not make
\* Start return: after it the adapter is still running.
C20_ProtocolErrorsSkipped ==
  \A i \in DOMAIN readLog :
    ProtocolError(readLog[i].frame) => ~(i = Len(readLog) /\ apc = "stopped" /\ aret = readLog[i].err)

----------------------------------------------------------------------------
(* Properties of the adapter's message handling (SpecAdapter)              *)

\* The reads that returned a message of the given event type.
ReadsOf(eventType) ==
  {i \in DOMAIN readLog : readLog[i].err = "none" /\ readLog[i].frame.eventType = eventType}

\* The Send calls that carry the absolute set a price_change stands for.
SetsSentFor(pc) ==
  {j \in DOMAIN sendLog : /\ sendLog[j].u.TokenID = pc.AssetID
                          /\ sendLog[j].u.Price = pc.Price
                          /\ sendLog[j].u.Size = pc.Size
                          /\ ~sendLog[j].u.IsDelta}

\* C21: for every price_change message the read loop has read, exactly one
\* Update {tokenID = asset_id, price, size, side, is_delta = false} has been
\* sent to the engine: as many such Send calls as price_change reads.
C21_PriceChangeSendsOneUpdate ==
  Cardinality(SetsSentFor(PriceChangePayload)) = Cardinality(ReadsOf(PriceChangeEvent))

\* The levels of a book event's side, as the book would store them.
ListedAt(entries, p) == \E k \in DOMAIN entries : entries[k].Price = p /\ entries[k].Size > 0

\* The stored side holds exactly the listed prices.
SideMatches(tree, entries) ==
  \A p \in Prices : (AtPrice(tree, p) # <<>>) <=> ListedAt(entries, p)

\* C22: after a book event for token T has been read and processed (Start
\* is back at its select or has gone on), the book stored for T holds on
\* each side exactly the levels the event lists.
C22_BookMatchesEvent ==
  (ReadsOf(BookEvent) # {} /\ Len(readLog) \in ReadsOf(BookEvent) /\ apc = "select") =>
    /\ SideMatches(books[BookPayload.AssetID].bids, BookPayload.Buys)
    /\ SideMatches(books[BookPayload.AssetID].asks, BookPayload.Sells)

\* The payload field of Message that belongs to an event type.
VariantOf(eventType) ==
  CASE eventType = BookEvent -> "Book"
    [] eventType = PriceChangeEvent -> "PriceChange"
    [] eventType = TickSizeChangeEvent -> "TickSizeChange"
    [] eventType = BestBidAskEvent -> "BestBidAsk"
    [] eventType = NewMarketEvent -> "NewMarket"
    [] eventType = MarketResolvedEvent -> "MarketResolved"

\* C23: for each of the six event types, the Message ParseMessage returned
\* for a well-formed frame has the frame's event_type as its EventType and
\* the variant of that type as its only non-nil payload.
C23_ParseMessageKeepsEventType ==
  \A i \in DOMAIN readLog :
    readLog[i].err = "none" =>
      /\ ParseMessage(readLog[i].frame).EventType = readLog[i].frame.eventType
      /\ ParseMessage(readLog[i].frame).nonNil = {VariantOf(readLog[i].frame.eventType)}

----------------------------------------------------------------------------
(* Properties of the reference-data loop (SpecSync)                        *)

\* syncLoop has made its three calls and no tick has been taken.
EntryDone == lpc = "select" /\ rounds = 0

\* The calls logged so far, in order.
CallsOf(log) == [i \in DOMAIN log |-> log[i].call]

EntryCalls == <<"syncMarkets", "GetTokenIDs", "subscribe">>

\* C24 (as claimed): once the entry calls are through, one frame has been
\* written and it carries the store's token ids.
C24_AlwaysOneFrameOnEntry ==
  EntryDone => (Len(subFrames) = 1 /\ subFrames[1].assets_ids = db.tokens)

\* C24: on entry the loop calls syncMarkets once, then the token lookup,
\* then subscribe, all before its first tick; if the lookup succeeded with
\* a non-empty set and the write succeeded, exactly one frame has been
\* written by then and its assets_ids are the store's token ids; otherwise
\* no frame has been written.
C24_OneFrameOnEntryIfTokens ==
  rounds = 0 =>
    /\ IsPrefix(CallsOf(llog), EntryCalls)
    /\ ~EntryDone => (lpc \in {"none", "syncMarkets0", "upsert0", "GetTokenIDs0", "subscribe0"}
                      /\ subFrames = <<>>)
    /\ lpc \in {"none", "syncMarkets0", "upsert0", "GetTokenIDs0"} => Len(llog) < 2
    /\ lpc = "subscribe0" => Len(llog) = 2
    /\ EntryDone =>
         /\ CallsOf(llog) = EntryCalls
         /\ IF llog[2].err = "none" /\ db.tokens # {} /\ llog[3].err = "none"
              THEN subFrames = <<[assets_ids |-> db.tokens, rounds |-> 0]>>
              ELSE subFrames = <<>>

\* The store was empty, the first sync inserted the three tokens, and the
\* one frame written before the first tick carries exactly these three.
C24_Witness ==
  /\ EntryDone
  /\ db.tokens = {"t1", "t2", "t3"}
  /\ subFrames = <<[assets_ids |-> {"t1", "t2", "t3"}, rounds |-> 0]>>

\* The entry calls are through and no frame was written.
C24_NoFrameOnEntry == EntryDone /\ subFrames = <<>>

\* The positions of a syncLoop that is running.
LoopPositions ==
  {"syncMarkets0", "upsert0", "GetTokenIDs0", "subscribe0", "select",
   "syncMarkets", "upsert", "GetTokenIDs", "subscribe"}

\* A step in which a call of syncLoop returns an error.
FailureLogged ==
  /\ Len(llog') = Len(llog) + 1
  /\ llog'[Len(llog')].err # "none"

\* After a failed call the loop is still running, at its select or at the
\* next call, and Start has not moved.
C25_FailureStep ==
  FailureLogged =>
    /\ lpc' \in LoopPositions
    /\ lpc \in {"syncMarkets", "upsert", "GetTokenIDs", "subscribe", "subscribe0"} => lpc' = "select"
    /\ apc' = apc /\ aret' = aret

\* From its select the loop only goes on into syncMarkets, by a tick.
C25_TickStep ==
  (lpc = "select" /\ lpc' # lpc) => (lpc' = "syncMarkets" /\ rounds' = rounds + 1)

\* C25: a failure of syncMarkets, of the token lookup or of subscribe, on
\* entry or on a tick, neither ends the loop nor makes Start return: the
\* loop, once spawned, is always at one of its positions, after a failure
\* it goes to its select (on entry: through the remaining calls), and at
\* its select the next tick is taken and calls syncMarkets again.
C25_FailureKeepsLoopAlive ==
  /\ [][C25_FailureStep]_vars
  /\ [][C25_TickStep]_vars
  /\ [][(lpc \in LoopPositions) => (lpc' \in LoopPositions)]_vars
  /\ [](lpc = "select" /\ rounds < MaxRounds => ENABLED syncLoop_Tick)

\* An earlier sync failed at the upsert of the first token (the market row
\* is stored, no token row is); the loop took its second tick and is at
\* the start of the upserts of another sync; Start is in its read loop.
C25_Witness ==
  /\ rounds = 2
  /\ lpc = "upsert" /\ ldone = <<>>
  /\ db = [markets |-> {"m1"}, tokens |-> {}]
  /\ apc = "select"

\* The upserts attempted by the sync in progress or last finished.
Attempted == [i \in DOMAIN ldone |-> ldone[i].u]

SyncFailed == ldone # <<>> /\ ~ldone[Len(ldone)].ok

InDb(u) == IF u.table = "markets" THEN u.id \in db.markets ELSE u.id \in db.tokens

C26_AbortedAtFirstFailure ==
  /\ \A i \in DOMAIN ldone : ~ldone[i].ok => i = Len(ldone)
  /\ SyncFailed => (lplan = <<>> /\ lpc \notin {"upsert0", "upsert"})
  /\ \A i \in DOMAIN ldone : ldone[i].ok => InDb(ldone[i].u)
  /\ \E ms \in {NoMarkets, Catalog} :
       /\ IsPrefix(Attempted, UpsertPlan(ms))
       /\ (lpc \in {"upsert0", "upsert"}) => (Attempted \o lplan = UpsertPlan(ms))

\* The step of a failing upsert: the store is left as it is and the
\* error is what syncMarkets returns to the loop.
C26_FailingStep ==
  (Len(ldone') = Len(ldone) + 1 /\ ~ldone'[Len(ldone')].ok) =>
    /\ db' = db
    /\ Len(llog') = Len(llog) + 1
    /\ llog'[Len(llog')] = Logged("syncMarkets",
          IF ldone'[Len(ldone')].u.table = "markets" THEN "upsert market" ELSE "upsert token")

\* The step that enters the upserts of a sync: nothing is attempted yet
\* and the plan starts at the first market of the listing.
C26_RestartStep ==
  (lpc \in {"syncMarkets0", "syncMarkets"} /\ lpc' \in {"upsert0", "upsert"}) =>
    /\ ldone' = <<>>
    /\ lplan' = UpsertPlan(Catalog)
    /\ Head(lplan') = [table |-> "markets", id |-> Catalog[1].ConditionID]

\* C26: syncMarkets aborts at the first failing market or token upsert: the
\* failed upsert is the last one of that sync and its error is returned;
\* the upserts made before it are in the store and no row ever leaves the
\* store; a later sync starts again from the first market.
C26_SyncAbortsAtFirstFailure ==
  /\ [](C26_AbortedAtFirstFailure)
  /\ [][C26_FailingStep]_vars
  /\ [][C26_RestartStep]_vars
  /\ [][(db.markets \subseteq db'.markets) /\ (db.tokens \subseteq db'.tokens)]_vars

\* The sync on entry stored m1 and t1 and failed at t2; the sync of the
\* first tick has upserted m1 again and is about to upsert t1.
C26_Witness ==
  /\ rounds = 1 /\ lpc = "upsert"
  /\ db = [markets |-> {"m1"}, tokens |-> {"t1"}]
  /\ Attempted = <<[table |-> "markets", id |-> "m1"]>>
  /\ Head(lplan) = [table |-> "tokens", id |-> "t1"]

----------------------------------------------------------------------------
(* Properties of GetAllMarkets (SpecClob)                                  *)

\* The first page of the venue that carries the end sentinel; 0 if none.
SentinelPage ==
  LET ends == {i \in DOMAIN pages : pages[i] = "LTE="}
  IN  IF ends = {} THEN 0 ELSE CHOOSE i \in ends : \A k \in ends : i <= k

\* A venue that paginates as the venue contract says: every page up to the
\* sentinel page carries a well-formed cursor of its own.
Paginates ==
  /\ SentinelPage > 0
  /\ \A i \in 1..(SentinelPage - 1) : pages[i] \in {"YWJj", "ZGVm"}
  /\ \A i, j \in 1..SentinelPage : i # j => pages[i] # pages[j]

\* C27: against a venue that paginates, get_all_markets returns the markets
\* of the pages up to and including the first page whose decoded
\* next_cursor is "-1", in page order, and makes no request after that
\* page: as many requests as pages up to the sentinel page.
C27_StopsAtSentinelPage ==
  Paginates =>
    /\ Len(requests) <= SentinelPage
    /\ cpc = "done" =>
         /\ cret = Returned([i \in 1..SentinelPage |-> i], "none")
         /\ Len(requests) = SentinelPage

\* The cursors that are not valid base64.
Malformed == {s \in Cursors \ {"nil"} : DecodeString(s).err}

\* C28: a page whose next_cursor is not valid base64 makes get_all_markets
\* return the decode failure as an error, and no request is made with such
\* a cursor.
C28_DecodeFailureSurfaced ==
  /\ \A i \in DOMAIN requests : requests[i].cursor \notin Malformed
  /\ cpc = "done" =>
       ((\E i \in DOMAIN requests : requests[i].resp.ok /\ requests[i].resp.cursor \in Malformed)
          => cret.err = "couldn't decode next cursor")

----------------------------------------------------------------------------
(* Properties of ReadMessage (SpecAdapter)                                 *)

\* The reads that ended in the <-ctx.Done() case of ReadMessage.
CancelledReads == {i \in DOMAIN readLog : readLog[i].err = "reading message"}

C29_CancelledReadIsLast ==
  /\ \A i \in CancelledReads :
       /\ readLog[i].frame = NoFrame
       /\ i = Len(readLog)
       /\ apc = "stopped" /\ aret = "reading message"
       /\ ctxDone
  /\ (deadline = "now") <=> (CancelledReads # {})

\* The step that takes the <-ctx.Done() case: it needs no frame, sets the
\* read deadline and hands the cancellation error to Start.
C29_CancelStep ==
  (Len(readLog') = Len(readLog) + 1 /\ readLog'[Len(readLog')].err = "reading message") =>
    /\ apc = "reading" /\ ctxDone
    /\ deadline' = "now"
    /\ readLog'[Len(readLog')].frame = NoFrame

\* C29: with the context fired while a read is in flight, ReadMessage can
\* return at once, whether or not a frame arrives; when it does it has set
\* an immediate read deadline on the connection and returns a cancellation
\* error with no message; no message is returned by that call or by any
\* later one.
C29_ReadMessageCancellable ==
  /\ [](apc = "reading" /\ ctxDone => ENABLED ReadMessage_Done)
  /\ [][C29_CancelStep]_vars
  /\ [](C29_CancelledReadIsLast)
  /\ [][CancelledReads # {} => readLog' = readLog]_vars

\* Two messages were read; the context fired during the third read and
\* ReadMessage returned the
\* cancellation with the deadline set.
C29_Witness ==
  /\ Len(readLog) = 3
  /\ readLog[1].err = "none" /\ readLog[2].err = "none"
  /\ readLog[3] = [frame |-> NoFrame, err |-> "reading message"]
  /\ deadline = "now"
  /\ apc = "stopped" /\ aret = "reading message"

----------------------------------------------------------------------------
(* Properties of Price.UnmarshalJSON (SpecPrice)                           *)

\* The decimal string inside the input, its digits before and after the
\* point.
Decimal == IF data # <<>> /\ data[1] = "\"" THEN SubSeq(data, 2, Len(data) - 1) ELSE data

PointAt ==
  IF \E i \in DOMAIN Decimal : Decimal[i] = "."
    THEN CHOOSE i \in DOMAIN Decimal : Decimal[i] = "."
    ELSE Len(Decimal) + 1

IntegerDigits == [i \in 1..(PointAt - 1) |-> DigitOf(Decimal[i])]

FractionDigits == [i \in 1..(Len(Decimal) - PointAt) |-> DigitOf(Decimal[PointAt + i])]

RECURSIVE StripZeros(_)
\* A digit sequence without its leading zeros (<<0>> for zero).
StripZeros(ds) ==
  IF Len(ds) > 1 /\ Head(ds) = 0 THEN StripZeros(Tail(ds)) ELSE ds

\* integer_part * 10^6 plus the fractional digits right-padded with zeros
\* to 6 places, as a decimal numeral.
Expected ==
  StripZeros(IntegerDigits \o FractionDigits \o [i \in 1..(6 - Len(FractionDigits)) |-> 0])

\* v \div 10 and v % 10 of an unsigned four-limb number.
DivMod10(v) ==
  LET c4 == v[4]
      c3 == (c4 % 10) * Limb + v[3]
      c2 == (c3 % 10) * Limb + v[2]
      c1 == (c2 % 10) * Limb + v[1]
  IN  [q |-> <<c1 \div 10, c2 \div 10, c3 \div 10, c4 \div 10>>, r |-> c1 % 10]

RECURSIVE Numeral(_)
\* The decimal numeral of a non-negative int64.
Numeral(v) ==
  IF DivMod10(v).q = Int64Zero THEN <<DivMod10(v).r>>
  ELSE Append(Numeral(DivMod10(v).q), DivMod10(v).r)

\* math.MaxInt64 as a numeral.
MaxInt64 == <<9, 2, 2, 3, 3, 7, 2, 0, 3, 6, 8, 5, 4, 7, 7, 5, 8, 0, 7>>

RECURSIVE NumeralLeq(_, _)
\* a <= b for numerals of the same length.
NumeralLeq(a, b) ==
  IF a = <<>> THEN TRUE
  ELSE IF Head(a) # Head(b) THEN Head(a) < Head(b)
  ELSE NumeralLeq(Tail(a), Tail(b))

\* The scaled value is one an int64 can hold.
FitsInt64(n) == Len(n) < Len(MaxInt64) \/ (Len(n) = Len(MaxInt64) /\ NumeralLeq(n, MaxInt64))

\* The value stored is the expected one, and the quoted and the unquoted
\* form of the input give the same value.
ParsedAsExpected ==
  /\ pres.err = "none"
  /\ ~Negative(pres.p)
  /\ Numeral(pres.p) = Expected
  /\ pres.p = UnmarshalJSON(Decimal).p
  /\ pres.p = UnmarshalJSON(Quoted(Decimal)).p

\* C30 as claimed: for every decimal string with at most 6 fractional
\* digits the decoder yields integer_part * 10^6 plus the padded fraction.
C30_EveryDecimalParsed ==
  (pres.done /\ Len(FractionDigits) <= 6) => ParsedAsExpected

\* C30: for every decimal string with at most 6 fractional digits whose
\* scaled value fits in a signed 64-bit integer, quoted or unquoted,
\* UnmarshalJSON returns no error and stores integer_part * 10^6 plus the
\* fractional digits right-padded with zeros to 6 places; the quoted and
\* the unquoted form give the same value.
C30_RepresentableDecimalParsed ==
  (pres.done /\ Len(FractionDigits) <= 6 /\ FitsInt64(Expected)) => ParsedAsExpected

\* The JSON string "0.5" was decoded to 500000.
C30_Witness ==
  /\ pres.done
  /\ data = <<"\"", "0", ".", "5", "\"">>
  /\ pres.p = <<41248, 7, 0, 0>>
  /\ Numeral(pres.p) = <<5, 0, 0, 0, 0, 0>>

\* The largest value was decoded: 9223372036854.775807 is math.MaxInt64.
C30_LargestDecoded ==
  /\ pres.done
  /\ Numeral(pres.p) = MaxInt64
  /\ Expected = MaxInt64

\* The input cut after its sixth fractional digit.
CutAfterSixth == SubSeq(Decimal, 1, PointAt + 6)

\* C31: fractional digits beyond the sixth are truncated, not rounded: a
\* decimal string with more than 6 fractional digits decodes to the same
\* value as the string cut after its sixth fractional digit; "0.1234567"
\* gives 123456 and "0.9999999" gives 999999.
C31_ExtraDigitsTruncated ==
  (pres.done /\ Len(FractionDigits) > 6) =>
    /\ pres.err = "none"
    /\ pres.p = UnmarshalJSON(CutAfterSixth).p
    /\ pres.p = UnmarshalJSON(Quoted(CutAfterSixth)).p
    /\ (Decimal = <<"0", ".", "1", "2", "3", "4", "5", "6", "7">>
          => Numeral(pres.p) = <<1, 2, 3, 4, 5, 6>>)
    /\ (Decimal = <<"0", ".", "9", "9", "9", "9", "9", "9", "9">>
          => Numeral(pres.p) = <<9, 9, 9, 9, 9, 9>>)

\* "0.9999999" was decoded to 999999.
C31_Witness ==
  /\ pres.done
  /\ data = <<"0", ".", "9", "9", "9", "9", "9", "9", "9">>
  /\ Len(FractionDigits) = 7
  /\ Numeral(pres.p) = <<9, 9, 9, 9, 9, 9>>

----------------------------------------------------------------------------
(* Further properties of the order book (SpecBook)                         *)

\* The operation recorded in op was a successful Set or Update at price p
\* of side s.
Touches(op, p, s) == op.op \in {"Set", "Update"} /\ ~op.err /\ op.p = p /\ op.side = s

\* One step of the book seen from price p of side s: set(p, 0) removes the
\* level; while the level is absent an operation elsewhere (another price,
\* the other side, a rejected side, a read) leaves it absent; and
\* set(p, k), k > 0, on the absent level stores size k.
C32_Step(p, s) ==
  /\ (Touches(last', p, s) /\ last'.op = "Set" /\ last'.size = 0)
       => AtPrice(ob'[s], p) = <<>>
  /\ (AtPrice(ob[s], p) = <<>> /\ ~Touches(last', p, s))
       => AtPrice(ob'[s], p) = <<>>
  /\ (AtPrice(ob[s], p) = <<>> /\ Touches(last', p, s) /\ last'.op = "Set" /\ last'.size > 0)
       => /\ Len(AtPrice(ob'[s], p)) = 1
          /\ SizeAt(ob'[s], p) = last'.size

\* C32: after set(p, 0, s, t) the level p of side s is absent and stays
\* absent through every Set/Update that does not touch p on side s
\* (operations on the other side at price p included); a following
\* set(p, k, s, t') with k > 0 makes p present with size exactly k.
C32_ZeroedLevelStaysAbsent ==
  [][\A p \in Prices, s \in ValidSides : C32_Step(p, s)]_vars

\* set(1, 0, bids) has just removed a stored bid at price 1 while the ask
\* side holds a level at the same price.
C32_Witness ==
  /\ last.op = "Set" /\ ~last.err /\ last.size = 0
  /\ last.p = 1 /\ last.side = "bids"
  /\ SizeAt(last.pre.bids, 1) > 0
  /\ AtPrice(ob.bids, 1) = <<>>
  /\ SizeAt(ob.asks, 1) > 0

----------------------------------------------------------------------------
(* Properties of consecutive operations on one book (SpecPair)             *)

\* The last two operations were update(p, a) and then update(p, b) on the
\* same side.
TwoUpdates ==
  /\ prev.op = "Update" /\ ~prev.err
  /\ last.op = "Update" /\ ~last.err
  /\ last.p = prev.p /\ last.side = prev.side

\* The book the single update(p, a + b) makes of the book the two updates
\* started from.
SingleUpdate == Update(prev.pre, prev.p, prev.size + last.size, prev.side, last.t).ob

\* The two updates left the level at p as the single update would have:
\* same presence, same size.
SameLevelAsSingle ==
  /\ Len(AtPrice(ob[last.side], last.p)) = Len(AtPrice(SingleUpdate[last.side], last.p))
  /\ SizeAt(ob[last.side], last.p) = SizeAt(SingleUpdate[last.side], last.p)

\* C33: from any book state, update(p, a) then update(p, b) leaves the
\* level at p (presence and size) as the single update(p, a + b) does,
\* provided update(p, a) does not remove the level, i.e. its resulting size
\* (existing size or 0) + a is > 0 and the level is stored after it.
C33_UpdateAssociative ==
  (TwoUpdates /\ SizeAt(last.pre[prev.side], prev.p) > 0) => SameLevelAsSingle

\* A stored level of size 1 took update(+1) and then update(-1): size 1, as
\* after update(0).
C33_Witness ==
  /\ TwoUpdates
  /\ SizeAt(prev.pre[prev.side], prev.p) = 1
  /\ prev.size = 1 /\ last.size = 0 - 1
  /\ SizeAt(last.pre[prev.side], prev.p) = 2
  /\ SizeAt(ob[last.side], last.p) = 1
  /\ SameLevelAsSingle


\* The last two operations were a successful set(p, k, s, t) and then
\* top_n(s, 1).
SetThenTop ==
  /\ prev.op = "Set" /\ ~prev.err
  /\ last.op = "GetTopN" /\ ~last.err /\ last.n = 1
  /\ last.side = prev.side

\* top_n(s, 1)[0].price equals p.
TopIsP == last.levels # <<>> /\ last.levels[1].Price = prev.p

\* No other level of side s is better-priced than p: higher for the bids,
\* lower for the asks.
NoneBetter ==
  \A i \in DOMAIN ob[prev.side] :
    ob[prev.side][i].Price # prev.p =>
      IF prev.side = "bids" THEN ob[prev.side][i].Price < prev.p
      ELSE ob[prev.side][i].Price > prev.p

\* C34 as claimed: after set(p, k, s, t) with any k, top_n(s, 1)[0].price
\* equals p if and only if no other level of side s is better-priced.
C34_TopIsSetPriceIffNoneBetter == SetThenTop => (TopIsP <=> NoneBetter)

\* C34: after set(p, k, s, t) with k > 0 on any book state,
\* top_n(s, 1)[0].price equals p if and only if no other level on side s is
\* better-priced than p (higher for bids, lower for asks).
C34_TopIsStoredPriceIffNoneBetter ==
  (SetThenTop /\ prev.size > 0) => (TopIsP <=> NoneBetter)

\* A bid was set at price 2 above a stored bid at price 1, and top_n(bids, 1)
\* returned the level at price 2.
C34_Witness ==
  /\ SetThenTop /\ prev.size > 0
  /\ prev.side = "bids" /\ prev.p = 2
  /\ SizeAt(prev.pre.bids, 1) > 0
  /\ TopIsP /\ NoneBetter

\* An ask was set at price 2 above a stored ask at price 1, and
\* top_n(asks, 1) returned the level at price 1.
C34_BetterLevelOnTop ==
  /\ SetThenTop /\ prev.size > 0
  /\ prev.side = "asks" /\ prev.p = 2
  /\ ~TopIsP /\ ~NoneBetter
  /\ last.levels[1].Price = 1

----------------------------------------------------------------------------
(* Independence of the two sides (SpecBook)                                *)

OtherSide(s) == IF s = "bids" THEN "asks" ELSE "bids"

\* The best bid is at or above the best ask.
Crossed(b) == b.bids # <<>> /\ b.asks # <<>> /\ b.bids[1].Price >= b.asks[1].Price

\* C35: bids and asks are independent: a Set or Update on one side leaves
\* every level of the other side unchanged, a rejected or a read operation
\* leaves both sides unchanged, and nothing is removed or altered because
\* the book is crossed: on the side operated on only the level at the given
\* price changes, and a level set with a positive size is stored exactly as
\* sent, whether or not it crosses the other side.
C35_SidesIndependent ==
  /\ (last.op \in {"Set", "Update"} /\ ~last.err) =>
       /\ ob[OtherSide(last.side)] = last.pre[OtherSide(last.side)]
       /\ NotAtPrice(ob[last.side], last.p) = NotAtPrice(last.pre[last.side], last.p)
       /\ (last.op = "Set" /\ last.size > 0) =>
            AtPrice(ob[last.side], last.p) = <<Level(last.p, last.size, last.t)>>
  /\ (last.op \in {"GetTopN", "Len"} \/ last.err) => ob = last.pre

\* A bid was set at price 2 while the best ask is at price 1: the book is
\* crossed, the bid is stored as sent and the asks are as they were.
C35_Witness ==
  /\ last.op = "Set" /\ ~last.err /\ last.side = "bids" /\ last.p = 2 /\ last.size > 0
  /\ ~Crossed(last.pre)
  /\ Crossed(ob)
  /\ ob.asks # <<>> /\ ob.asks[1].Price = 1
  /\ ob.asks = last.pre.asks
  /\ ob.bids[1] = Level(2, last.size, last.t)

----------------------------------------------------------------------------
(* The worker map (SpecTokens)                                             *)

\* The Send calls whose update, tagged tok, the router has taken off the
\* inbound channel.
DequeuedFor(tok) ==
  {i \in DOMAIN sendLog :
     /\ sendLog[i].ok
     /\ sendLog[i].u.TokenID = tok
     /\ \A j \in DOMAIN updates : updates[j].id # i}

\* The router holds update i and has not yet finished its lookup and, for a
\* new token, the insertion under the write lock.
BeforeInsert(i) == rcur.id = i /\ rpc \in {"rlock", "lock", "locking"}

\* C36 as claimed: the worker map contains T if and only if the router has
\* dequeued at least one update tagged T.
C36_InMapIffDequeued ==
  \A tok \in Tokens : Lookup(orderbookWorkers, tok) <=> DequeuedFor(tok) # {}

C36_InMapIffHandled ==
  \A tok \in Tokens :
    Lookup(orderbookWorkers, tok) <=> \E i \in DequeuedFor(tok) : ~BeforeInsert(i)

\* Every update a worker holds or has applied carries the worker's token.
C36_OwnUpdatesOnly ==
  \A tok \in Tokens :
    /\ \A i \in DOMAIN wq[tok] : wq[tok][i].TokenID = tok
    /\ \A i \in DOMAIN applied[tok] : applied[tok][i].TokenID = tok
    /\ wpc[tok] = "apply" => wcur[tok].u.TokenID = tok

\* An entry of the map is never removed or replaced, and a book changes
\* only in the step in which its own worker completes an update.
C36_Step ==
  \A tok \in Tokens :
    /\ Lookup(orderbookWorkers, tok) => orderbookWorkers'[tok] = orderbookWorkers[tok]
    /\ books'[tok] # books[tok] =>
         /\ wpc[tok] = "apply" /\ wcur[tok].u.TokenID = tok
         /\ \A other \in Tokens \ {tok} : books'[other] = books[other]

\* C36: the worker map contains T if and only if the router has dequeued an
\* update tagged T and has finished the lookup-and-insert step for it
\* (whether that update is then forwarded, dropped at a full worker queue or
\* rejected by the book for its side); entries are never removed or
\* replaced, so the set of known tokens only grows; and an update for one
\* token never changes the book of another token.
C36_TokensKnownOnceHandled ==
  /\ [](C36_InMapIffHandled /\ C36_OwnUpdatesOnly)
  /\ [][C36_Step]_vars

\* Token B is in the map although the only update applied for it had a
\* rejected side and left its book empty, while token A's book holds a
\* level.
C36_Witness ==
  /\ Lookup(orderbookWorkers, "A") /\ Lookup(orderbookWorkers, "B")
  /\ applied["B"] # <<>>
  /\ \A i \in DequeuedFor("B") : sendLog[i].u.Side \notin ValidSides
  /\ books["B"] = New
  /\ books["A"] # New

----------------------------------------------------------------------------
(* The worker-map lock (SpecWriterFair)                                    *)

\* The lock is held by exactly the calls that are inside it: one read hold
\* for a TakeSnapshots between its RLock and its return, and a writer
\* waiting in Lock() exactly while the router is at its insertion.
C37_LockHeldOnlyInside ==
  /\ mu.readers = (IF spc = "idle" THEN 0 ELSE 1)
  /\ mu.pending <=> rpc = "locking"

\* C37: the worker-map lock never deadlocks the engine: under every
\* interleaving of the router (read lock for the lookup, then write lock
\* for a new token) and TakeSnapshots (read lock held for the whole scan),
\* every lock acquired is released, TakeSnapshots always returns, and the
\* router eventually registers the worker of a new token.
C37_LockNeverDeadlocks ==
  /\ []C37_LockHeldOnlyInside
  /\ (spc # "idle") ~> (spc = "idle")
  /\ (mu.readers > 0) ~> (mu.readers = 0)
  /\ mu.pending ~> ~mu.pending
  /\ \A tok \in Tokens :
       (rpc \in {"lock", "locking"} /\ rcur.TokenID = tok)
         ~> Lookup(orderbookWorkers, tok)

\* The router waits in Lock() for a new token while TakeSnapshots, in the
\* middle of its scan, holds the read lock.
C37_Witness ==
  /\ rpc = "locking" /\ mu.pending
  /\ mu.readers = 1 /\ spc \in {"range", "asks"}
  /\ ~Lookup(orderbookWorkers, rcur.TokenID)

----------------------------------------------------------------------------
(* Properties of the websocket client (SpecConn)                           *)

\* A reader that has its result in hand can put it on its channel at once.
C38_SendPossible ==
  \A k \in DOMAIN rd.readers :
    (rd.readers[k].pc = "send" /\ ~Panicked) => ENABLED reader_Send(k)

\* Each call has its own channel and its own reader; a channel is sent on
\* at most once, by that reader, and never holds more than one result.
C38_OneReaderPerCall ==
  /\ Len(rd.readers) = Len(rd.chans)
  /\ \A k \in DOMAIN rd.chans :
       /\ Len(rd.chans[k]) <= 1
       /\ rd.chans[k] # <<>> => (rd.readers[k].pc = "exit" /\ rd.chans[k][1] = rd.readers[k].res)

\* What a call returned is the cancellation, or what its own reader put on
\* the channel and the call took from it.
C38_ResultThroughQueue ==
  /\ Len(rd.returns) = IF rd.call = 0 THEN Len(rd.chans) ELSE Len(rd.chans) - 1
  /\ \A k \in DOMAIN rd.returns :
       rd.returns[k] # "reading message" =>
         /\ rd.readers[k].pc = "exit"
         /\ rd.chans[k] = <<>>
         /\ rd.returns[k] = ErrorOf(rd.readers[k].res)

\* C38: the background reader of a ReadMessage call never blocks on
\* delivering its result: the result channel has one slot and is sent on by
\* the one reader of that call only, so the send finds the slot free even
\* when ReadMessage has already returned on cancellation; and the caller
\* gets the reader's result through that channel only.
C38_ReaderNeverBlocksOnDelivery ==
  C38_SendPossible /\ C38_OneReaderPerCall /\ C38_ResultThroughQueue

\* ReadMessage returned the cancellation, and afterwards its reader, woken
\* by the read deadline, delivered its result into the channel nobody reads
\* any more and ended.
C38_Witness ==
  /\ rd.returns = <<"reading message">>
  /\ rd.call = 0 /\ rd.deadline = "now"
  /\ rd.readers[1].pc = "exit"
  /\ rd.chans[1] = <<Result("", "read error")>>


\* A Stop call made while p.ws is nil returns nil and leaves the
\* connection, the stop signal and the keepalive as they were; no other
\* Stop call returns nil that way.
C40_StopStep ==
  (wsc'.stopLog # wsc.stopLog /\ wsc.ws = "nil") =>
    /\ wsc'.stopLog = Append(wsc.stopLog, "nil")
    /\ wsc' = [wsc EXCEPT !.stopLog = wsc'.stopLog]

\* No Stop call panics, the stop signal is raised by at most one call, and
\* no ping is written once a Stop call has returned.
C40_NoAbruptStop ==
  /\ \A i \in DOMAIN wsc.stopLog : wsc.stopLog[i] # "panic"
  /\ Cardinality({i \in DOMAIN wsc.stopLog : wsc.stopLog[i] = "closed"}) <= 1
  /\ \A i \in DOMAIN wsc.pings : wsc.pings[i].sent => ~wsc.pings[i].stopped

\* C40: Stop is safe in every adapter state: before a successful connect
\* it returns nil without touching any connection; after a successful
\* connect it may be called more than once without failing abruptly: no
\* call panics, the keepalive stop signal is raised at most once, and the
\* keepalive sends no ping after Stop has returned.
C40_StopIsSafe == [][C40_StopStep]_vars /\ []C40_NoAbruptStop

\* Without the panic: Stop before a connect returns nil and touches
\* nothing, the stop signal is raised at most once, no ping is sent after a
\* Stop has returned.
C40_StopSafeButForPanic ==
  /\ [][C40_StopStep]_vars
  /\ [](/\ Cardinality({i \in DOMAIN wsc.stopLog : wsc.stopLog[i] = "closed"}) <= 1
        /\ \A i \in DOMAIN wsc.pings : wsc.pings[i].sent => ~wsc.pings[i].stopped)

----------------------------------------------------------------------------
(* Pagination: every page once (SpecClob)                                  *)

\* The venue hands every cursor out once: no two pages carry the same
\* next cursor.
DistinctCursors ==
  \A i, j \in DOMAIN pages :
    (i # j /\ pages[i] \notin {"nil", "", "error"}) => pages[i] # pages[j]

\* The first page was served and carries no next cursor (absent or empty)
\* or the end sentinel.
FirstPageIsLast ==
  /\ requests # <<>>
  /\ requests[1].resp.ok
  /\ requests[1].resp.cursor \in {"nil", "", "LTE="}

\* C39: get_all_markets requests and appends every page exactly once: when
\* the first page carries no next cursor (absent or empty) or carries the
\* end sentinel, no second request is made; no page is requested twice and
\* the markets collected never contain the markets of one page twice.
C39_EveryPageExactlyOnce ==
  DistinctCursors =>
    /\ FirstPageIsLast => Len(requests) = 1
    /\ \A i, j \in DOMAIN requests :
         (i # j /\ requests[i].resp.ok /\ requests[j].resp.ok)
           => requests[i].resp.page # requests[j].resp.page
    /\ \A i, j \in DOMAIN markets : i # j => markets[i] # markets[j]

\* The Kalshi client got a single page with an empty cursor, requested it a
\* second time and returned its market twice.
C39_FirstPageTwice ==
  /\ client = "kalshi" /\ pages = <<"">>
  /\ cpc = "done"
  /\ Len(requests) = 2
  /\ cret = Returned(<<1, 1>>, "none")

\* The Polymarket client got a first page carrying the end sentinel and
\* made a second request with it.
C39_RequestAfterSentinel ==
  /\ client = "clob" /\ pages[1] = "LTE="
  /\ Len(requests) = 2
  /\ requests[2].cursor = "LTE="
====
